---------------------------- MODULE Spec2Model ----------------------------
(***************************************************************************)
(* A model of Clever/pathio (src/pathio.go): a Client that serves Reader,  *)
(* Write, WriteReader, Delete, ListFiles and Exists from the local file    *)
(* system or from S3, chosen by the literal prefix "s3://" of the path.    *)
(*                                                                         *)
(* Strings of the program are sequences of one-character strings, so that  *)
(* strings.HasPrefix and strings.SplitN are computed character by          *)
(* character as the Go library computes them.  The file system and the     *)
(* object store are the environment: a tree of nodes and a key-value map,  *)
(* whose calls may fail where the action's inputs say so.                  *)
(***************************************************************************)
EXTENDS Integers, Sequences, FiniteSets, TLC

VARIABLES
    client,   \* the Client: Region, disableS3Encryption, providedConfig
    disk,     \* the local file system: cleaned name -> node
    store,    \* the object store: <<bucket, key>> -> object
    net,      \* the store calls the last operation issued, in order
    sys,      \* the file-system calls the last operation issued, in order
    last,     \* the last operation: its name, arguments and what it returned
    nops,     \* how many operations have been called
    mock,     \* the MockClient: Filesystem, the three errors, the lock
    gor       \* the goroutines calling the MockClient: goroutine -> its call

vars == <<client, disk, store, net, sys, last, nops, mock, gor>>

-----------------------------------------------------------------------------
(* Bounds of the model. *)

\* Operations per behaviour.
MaxOps == 2

\* Pages one ListAllObjects response may hold.
MaxPages == 2

\* Characters after the scheme in the paths the resolver is tried on.
MaxTail == 5

\* The calls of one run on a local path, whose log is kept.
MaxCalls == 4

-----------------------------------------------------------------------------
(* Strings. *)

\* strings.HasPrefix(s, prefix)
HasPrefix(s, prefix) ==
    /\ Len(s) >= Len(prefix)
    /\ SubSeq(s, 1, Len(prefix)) = prefix

\* strings.Index(s, c) for a one-character separator, 1-based; 0 when absent.
Index(s, c) ==
    IF \E i \in 1..Len(s) : s[i] = c
    THEN CHOOSE i \in 1..Len(s) : s[i] = c /\ \A j \in 1..(i - 1) : s[j] # c
    ELSE 0

\* strings.LastIndex(s, c), 1-based; 0 when absent.
LastIndex(s, c) ==
    IF \E i \in 1..Len(s) : s[i] = c
    THEN CHOOSE i \in 1..Len(s) : s[i] = c /\ \A j \in (i + 1)..Len(s) : s[j] # c
    ELSE 0

\* strings.SplitN(s, sep, n) for n > 0: at most n substrings, the last one
\* the unsplit remainder.
RECURSIVE SplitN(_, _, _)
SplitN(s, sep, n) ==
    LET i == Index(s, sep) IN
    IF n = 1 \/ i = 0
    THEN <<s>>
    ELSE <<SubSeq(s, 1, i - 1)>> \o SplitN(SubSeq(s, i + 1, Len(s)), sep, n - 1)

\* The remote-scheme marker of the prefix checks.
S3Scheme == <<"s", "3", ":", "/", "/">>

Slash == "/"

\* Every substring between separators (strings.Split).
RECURSIVE Split(_, _)
Split(s, sep) ==
    LET i == Index(s, sep) IN
    IF i = 0
    THEN <<s>>
    ELSE <<SubSeq(s, 1, i - 1)>> \o Split(SubSeq(s, i + 1, Len(s)), sep)

RECURSIVE Join(_, _)
Join(parts, sep) ==
    IF parts = <<>> THEN <<>>
    ELSE IF Len(parts) = 1 THEN parts[1]
    ELSE parts[1] \o <<sep>> \o Join(Tail(parts), sep)

-----------------------------------------------------------------------------
(* The paths the operations are called with. *)

RemotePaths ==
    { S3Scheme \o <<"b", "/", "k">>,            \* s3://b/k
      S3Scheme \o <<"b", "/", "d", "/", "k">>,  \* s3://b/d/k
      S3Scheme \o <<"b">>,                      \* s3://b
      S3Scheme,                                 \* s3://
      S3Scheme \o <<"b", "/">>,                 \* s3://b/
      S3Scheme \o <<"/", "k">> }                \* s3:///k

LocalPaths ==
    { <<"f">>,                                  \* f
      <<"d">>,                                  \* d
      <<"d", "/", "f">>,                        \* d/f
      <<"s", "3", ":", "/", "k">>,              \* s3:/k
      <<"S", "3", ":", "/", "/", "k">> }        \* S3://k

Paths == RemotePaths \cup LocalPaths

\* What a file or an object holds.
Contents == { <<7>>, <<8, 9>> }

-----------------------------------------------------------------------------
(* Errors.  nil is NoErr; every other error carries its kind, the string   *)
(* it was formatted with and the text of the error it wraps.               *)

NoErr == [kind |-> "nil", arg |-> <<>>, cause |-> ""]

Err(kind, arg, cause) == [kind |-> kind, arg |-> arg, cause |-> cause]

\* Errors of the file system.
ENOENT == Err("ENOENT", <<>>, "")
ENOTDIR == Err("ENOTDIR", <<>>, "")
EISDIR == Err("EISDIR", <<>>, "")
EACCES == Err("EACCES", <<>>, "")

\* os.IsNotExist(err)
IsNotExist(err) == err.kind = "ENOENT"

\* Errors of the store: API errors (smithy.APIError) and the others.
S3NotFound == Err("NotFound", <<>>, "")
S3NoSuchKey == Err("NoSuchKey", <<>>, "")
S3AccessDenied == Err("AccessDenied", <<>>, "")
NetTimeout == Err("timeout", <<>>, "")

\* errors.As(err, &apiError)
IsAPIError(err) == err.kind \in {"NotFound", "NoSuchKey", "AccessDenied"}

\* errors.As(apiError, &notFound) for *s3Types.NotFound
IsNotFoundType(err) == err.kind = "NotFound"

-----------------------------------------------------------------------------
(* The local file system: the environment of the local backend.  A name is *)
(* resolved as the operating system resolves it: repeated separators count *)
(* as one, and every directory on the way must exist and be a directory.   *)
(* No path of the model has a "." or ".." element or starts with a         *)
(* separator, so Clean only has separators to collapse.                    *)

Dot == <<".">>

\* filepath.Clean(p)
Clean(p) ==
    LET elems == SelectSeq(Split(p, Slash), LAMBDA x : x # <<>>) IN
    IF elems = <<>> THEN Dot ELSE Join(elems, Slash)

\* filepath.Dir(p): all but the last element, cleaned.
Dir(p) == Clean(SubSeq(p, 1, LastIndex(p, Slash)))

\* filepath.Base of a cleaned name: its last element.
Base(p) == SubSeq(p, LastIndex(p, Slash) + 1, Len(p))

RECURSIVE SelfAndAncestors(_)
SelfAndAncestors(n) ==
    IF n = Dot THEN {} ELSE {n} \cup SelfAndAncestors(Dir(n))

\* Every name the paths of the model can reach.
FsNames == UNION { SelfAndAncestors(Clean(p)) : p \in LocalPaths }

Absent == [kind |-> "absent", data |-> <<>>]
DirNode == [kind |-> "dir", data |-> <<>>]
FileNode(d) == [kind |-> "file", data |-> d]

\* The node a cleaned name resolves to, or the error of the walk.
RECURSIVE Resolve(_, _)
Resolve(dk, name) ==
    IF name = Dot THEN [err |-> NoErr, node |-> DirNode]
    ELSE LET par == Resolve(dk, Dir(name)) IN
         IF par.err # NoErr THEN par
         ELSE IF par.node.kind # "dir" THEN [err |-> ENOTDIR, node |-> Absent]
         ELSE IF dk[name].kind = "absent" THEN [err |-> ENOENT, node |-> Absent]
         ELSE [err |-> NoErr, node |-> dk[name]]

\* The names directly inside a directory.
Children(dk, name) ==
    { n \in FsNames : Dir(n) = name /\ dk[n].kind # "absent" }

\* Character codes, for the order of directory listings.
Code(c) ==
    CASE c = "/" -> 47 [] c = "3" -> 51 [] c = ":" -> 58 [] c = "S" -> 83
      [] c = "b" -> 98 [] c = "d" -> 100 [] c = "f" -> 102 [] c = "k" -> 107
      [] c = "s" -> 115 [] OTHER -> 0

RECURSIVE StrLess(_, _)
StrLess(a, b) ==
    IF b = <<>> THEN FALSE
    ELSE IF a = <<>> THEN TRUE
    ELSE IF Code(Head(a)) # Code(Head(b)) THEN Code(Head(a)) < Code(Head(b))
    ELSE StrLess(Tail(a), Tail(b))

\* The elements of a set of strings in increasing order.
RECURSIVE Sorted(_)
Sorted(S) ==
    IF S = {} THEN <<>>
    ELSE LET m == CHOOSE x \in S : \A y \in S \ {x} : StrLess(x, y)
         IN <<m>> \o Sorted(S \ {m})

\* A file-system call failed where the operation's inputs say so: osFail
\* is the index of the failing call among the operation's calls, 0 for none.
OsFails(e, k) == e.osFail = k

\* os.Stat(path)
Stat(dk, path, e) ==
    IF OsFails(e, 1) THEN [err |-> EACCES, node |-> Absent]
    ELSE Resolve(dk, Clean(path))

\* os.Open(path): a directory opens too.
Open(dk, path, e) ==
    IF OsFails(e, 1) THEN [err |-> EACCES, node |-> Absent]
    ELSE Resolve(dk, Clean(path))

\* A faulty Remove: it returns nil and leaves the file.
RemoveKeep(dk, path, e) ==
    LET r == Resolve(dk, Clean(path)) IN
    IF OsFails(e, 1) THEN [err |-> EACCES, disk |-> dk]
    ELSE IF r.err # NoErr THEN [err |-> r.err, disk |-> dk]
    ELSE [err |-> NoErr, disk |-> dk]

\* os.Remove(path): a file, or a directory that is empty.
Remove(dk, path, e) ==
    LET name == Clean(path)
        r == Resolve(dk, name) IN
    IF OsFails(e, 1) THEN [err |-> EACCES, disk |-> dk]
    ELSE IF r.err # NoErr THEN [err |-> r.err, disk |-> dk]
    ELSE IF r.node.kind = "dir" /\ Children(dk, name) # {}
         THEN [err |-> Err("ENOTEMPTY", <<>>, ""), disk |-> dk]
    ELSE [err |-> NoErr, disk |-> [dk EXCEPT ![name] = Absent]]

\* os.ReadDir(path): the entries of a directory, sorted by name.
ReadDir(dk, path, e) ==
    LET name == Clean(path)
        r == Resolve(dk, name) IN
    IF OsFails(e, 1) THEN [err |-> EACCES, names |-> <<>>]
    ELSE IF r.err # NoErr THEN [err |-> r.err, names |-> <<>>]
    ELSE IF r.node.kind # "dir" THEN [err |-> ENOTDIR, names |-> <<>>]
    ELSE [err |-> NoErr,
          names |-> Sorted({ Base(n) : n \in Children(dk, name) })]

\* os.MkdirAll(dir, 0700): the directory and its missing parents.
RECURSIVE MkdirAll(_, _, _)
MkdirAll(dk, dir, e) ==
    IF OsFails(e, 1) THEN [err |-> EACCES, disk |-> dk]
    ELSE IF dir = Dot \/ dk[dir].kind = "dir" THEN [err |-> NoErr, disk |-> dk]
    ELSE IF dk[dir].kind = "file" THEN [err |-> ENOTDIR, disk |-> dk]
    ELSE LET up == MkdirAll(dk, Dir(dir), e) IN
         IF up.err # NoErr THEN up
         ELSE [err |-> NoErr, disk |-> [up.disk EXCEPT ![dir] = DirNode]]

\* os.Create(path): the file, created or truncated to nothing.
Create(dk, path, e) ==
    LET name == Clean(path)
        par == Resolve(dk, Dir(name)) IN
    IF OsFails(e, 2) THEN [err |-> EACCES, disk |-> dk]
    ELSE IF par.err # NoErr THEN [err |-> par.err, disk |-> dk]
    ELSE IF par.node.kind # "dir" THEN [err |-> ENOTDIR, disk |-> dk]
    ELSE IF dk[name].kind = "dir" THEN [err |-> EISDIR, disk |-> dk]
    ELSE [err |-> NoErr, disk |-> [dk EXCEPT ![name] = FileNode(<<>>)]]

-----------------------------------------------------------------------------
(* The input of a write: an io.ReadSeeker.  It holds its bytes and its     *)
(* read position; seek says what its Seek does: "ok" moves the position,   *)
(* "err" returns an error, "off" lands at another offset than asked.       *)
(* bytes.NewReader(b), which Write passes, is the stream at 0 with "ok".   *)

SeekKinds == {"ok", "err", "off"}

Streams ==
    { [data |-> d, pos |-> p, seek |-> "ok"] : d \in Contents, p \in {0, 1} }
    \cup { [data |-> d, pos |-> 1, seek |-> k] :
              d \in Contents, k \in {"err", "off"} }

\* bytes.NewReader(b)
NewReader(b) == [data |-> b, pos |-> 0, seek |-> "ok"]

\* input.Seek(0, io.SeekStart): the offset and error returned, and the
\* stream afterwards.
SeekStart(input) ==
    CASE input.seek = "ok" ->
            [offset |-> 0, err |-> NoErr, input |-> [input EXCEPT !.pos = 0]]
      [] input.seek = "err" ->
            [offset |-> 0, err |-> Err("seek", <<>>, ""), input |-> input]
      [] OTHER ->
            [offset |-> 1, err |-> NoErr, input |-> [input EXCEPT !.pos = 1]]

\* What is read from the stream from its position to its end.
Rest(input) ==
    IF input.pos >= Len(input.data) THEN <<>>
    ELSE SubSeq(input.data, input.pos + 1, Len(input.data))

\* io.Copy(file, input) into the created file: everything, or, when the
\* copy fails, the e.partial bytes that were already written.
Copy(dk, path, input, e) ==
    LET name == Clean(path)
        all == Rest(input)
        n == IF e.partial < Len(all) THEN e.partial ELSE Len(all) IN
    IF OsFails(e, 3)
    THEN [err |-> Err("EIO", <<>>, ""),
          disk |-> [dk EXCEPT ![name] = FileNode(SubSeq(all, 1, n))]]
    ELSE [err |-> NoErr, disk |-> [dk EXCEPT ![name] = FileNode(all)]]

\* One file-system call and the error it returned, as the log of an
\* operation records it.
SysCall(call, name, err) == [call |-> call, name |-> name, err |-> err]

-----------------------------------------------------------------------------
(* The local backend. *)

\* A faulty writeToLocalFile: the file is opened without truncation, so the
\* bytes past the written ones survive.
writeToLocalFileNoTrunc(dk, path, input, e) ==
    LET dir == Dir(path)
        m == MkdirAll(dk, dir, e)
        old == m.disk[Clean(path)].data
        c == Create(m.disk, path, e)
        w == Copy(c.disk, path, input, e)
        new == w.disk[Clean(path)].data
        kept == IF Len(old) > Len(new)
                THEN new \o SubSeq(old, Len(new) + 1, Len(old))
                ELSE new
        s1 == <<SysCall("MkdirAll", dir, m.err)>>
        s2 == s1 \o <<SysCall("Create", path, c.err)>>
        s3 == s2 \o <<SysCall("Copy", path, w.err)>> IN
    IF m.err # NoErr THEN [err |-> m.err, disk |-> m.disk, sys |-> s1]
    ELSE IF c.err # NoErr THEN [err |-> c.err, disk |-> c.disk, sys |-> s2]
    ELSE [err |-> w.err,
          disk |-> [w.disk EXCEPT ![Clean(path)] = FileNode(kept)],
          sys |-> s3]

\* A faulty writeToLocalFile: the file is created before the directories
\* are.
writeToLocalFileCreateFirst(dk, path, input, e) ==
    LET dir == Dir(path)
        c == Create(dk, path, [e EXCEPT !.osFail = IF @ = 2 THEN 0 ELSE @])
        m == MkdirAll(c.disk, dir, e)
        w == Copy(m.disk, path, input, e)
        s1 == <<SysCall("Create", path, c.err)>>
        s2 == s1 \o <<SysCall("MkdirAll", dir, m.err)>>
        s3 == s2 \o <<SysCall("Copy", path, w.err)>> IN
    IF c.err # NoErr THEN [err |-> c.err, disk |-> c.disk, sys |-> s1]
    ELSE IF m.err # NoErr THEN [err |-> m.err, disk |-> m.disk, sys |-> s2]
    ELSE [err |-> w.err, disk |-> w.disk, sys |-> s3]

\* writeToLocalFile(path, input)
writeToLocalFile(dk, path, input, e) ==
    LET dir == Dir(path)
        m == MkdirAll(dk, dir, e)
        c == Create(m.disk, path, e)
        w == Copy(c.disk, path, input, e)
        s1 == <<SysCall("MkdirAll", dir, m.err)>>
        s2 == s1 \o <<SysCall("Create", path, c.err)>>
        s3 == s2 \o <<SysCall("Copy", path, w.err)>> IN
    IF m.err # NoErr THEN [err |-> m.err, disk |-> m.disk, sys |-> s1]
    ELSE IF c.err # NoErr THEN [err |-> c.err, disk |-> c.disk, sys |-> s2]
    ELSE [err |-> w.err, disk |-> w.disk, sys |-> s3]

\* A faulty existsLocal: the error of the Stat is returned as it is, the
\* not-exist one too.
existsLocalRaw(dk, path, e) ==
    LET st == Stat(dk, path, e)
        call == <<SysCall("Stat", path, st.err)>> IN
    [ok |-> (st.err = NoErr), err |-> st.err, sys |-> call]

\* existsLocal(path)
existsLocal(dk, path, e) ==
    LET st == Stat(dk, path, e)
        call == <<SysCall("Stat", path, st.err)>> IN
    IF IsNotExist(st.err)
    THEN [ok |-> FALSE, err |-> NoErr, sys |-> call]
    ELSE [ok |-> (st.err = NoErr), err |-> st.err, sys |-> call]

\* lsLocal(path)
lsLocal(dk, path, e) ==
    LET resp == ReadDir(dk, path, e)
        call == <<SysCall("ReadDir", path, resp.err)>> IN
    IF resp.err # NoErr
    THEN [names |-> <<>>, err |-> resp.err, sys |-> call]
    ELSE [names |-> resp.names, err |-> NoErr, sys |-> call]

-----------------------------------------------------------------------------
(* The object store: the environment of the remote backend, a consistent   *)
(* map from bucket and key to the object stored there.  A call through a   *)
(* handler fails where the operation's inputs say so.                      *)

defaultLocation == "us-east-1"
aesAlgo == "AES256"

\* The location constraints a bucket may report; "" is the unset one.
Constraints == {"", "us-west-2"}

NoObject == [present |-> FALSE, data |-> <<>>, sse |-> ""]
Object(d, sse) == [present |-> TRUE, data |-> d, sse |-> sse]

NoHandler == [region |-> "", usePathStyle |-> FALSE]

\* One call through a handler: its request, and the error it returned, as
\* the log of an operation records it.
NetCall(api, h, bucket, key, delimiter, body, sse, err) ==
    [api |-> api, handler |-> h, bucket |-> bucket, key |-> key,
     delimiter |-> delimiter, body |-> body, sse |-> sse, err |-> err]

\* The error a failing store call returns: an API error or a transport one.
PrimErr(e) == IF e.prim = "api" THEN S3AccessDenied ELSE NetTimeout

\* liveS3Handler.GetBucketLocation
GetBucketLocation(h, bucket, e) ==
    IF e.lookup = "fail"
    THEN [LocationConstraint |-> "", err |-> S3AccessDenied]
    ELSE [LocationConstraint |-> e.lookup, err |-> NoErr]

\* liveS3Handler.GetObject
GetObject(st, bucket, key, e) ==
    IF e.prim # "ok" THEN [Body |-> <<>>, err |-> PrimErr(e)]
    ELSE IF ~st[<<bucket, key>>].present THEN [Body |-> <<>>, err |-> S3NoSuchKey]
    ELSE [Body |-> st[<<bucket, key>>].data, err |-> NoErr]

\* liveS3Handler.PutObject: the body is read from the stream's position to
\* its end; a failed put stores nothing.
PutObject(st, bucket, key, body, sse, e) ==
    IF e.prim # "ok" THEN [err |-> PrimErr(e), store |-> st]
    ELSE [err |-> NoErr,
          store |-> [st EXCEPT ![<<bucket, key>>] = Object(Rest(body), sse)]]

\* liveS3Handler.DeleteObject: deleting what is not there succeeds.
DeleteObject(st, bucket, key, e) ==
    IF e.prim # "ok" THEN [err |-> PrimErr(e), store |-> st]
    ELSE [err |-> NoErr, store |-> [st EXCEPT ![<<bucket, key>>] = NoObject]]

\* liveS3Handler.HeadObject
HeadObject(st, bucket, key, e) ==
    IF e.prim # "ok" THEN PrimErr(e)
    ELSE IF ~st[<<bucket, key>>].present THEN S3NotFound
    ELSE NoErr

\* The page a store with nothing to list answers with.
EmptyPage == [CommonPrefixes |-> <<>>, Contents |-> <<>>]

\* What the store answers the requests of one listing with, page by page:
\* a store always answers the first request.
Answers(listing) == IF listing = <<>> THEN <<EmptyPage>> ELSE listing

\* One request of the pager and the error it returned.
PageCall(i, err) == [api |-> "NextPage", page |-> i, err |-> err]

\* pager.HasMorePages() before the request number i.
HasMorePages(answers, i) == i = 1 \/ i <= Len(answers)

\* A faulty loop of ListAllObjects: after a request that failed it goes on
\* with the next page, and returns the error at the end.
RECURSIVE NextPagesKeepGoing(_, _, _, _, _)
NextPagesKeepGoing(answers, i, pages, fetches, e) ==
    IF ~HasMorePages(answers, i)
    THEN IF e.prim # "ok" /\ e.page < i
         THEN [pages |-> <<>>, err |-> PrimErr(e), fetches |-> fetches]
         ELSE [pages |-> pages, err |-> NoErr, fetches |-> fetches]
    ELSE IF e.prim # "ok" /\ e.page = i
    THEN NextPagesKeepGoing(answers, i + 1, pages,
                            Append(fetches, PageCall(i, PrimErr(e))), e)
    ELSE NextPagesKeepGoing(answers, i + 1, Append(pages, answers[i]),
                            Append(fetches, PageCall(i, NoErr)), e)

ListAllObjectsKeepGoing(listing, e) ==
    NextPagesKeepGoing(Answers(listing), 1, <<>>, <<>>, e)

\* The loop of ListAllObjects from the request number i on: pages are the
\* pages appended so far, fetches the requests made so far.  The request
\* number e.page is the one that fails when the environment has the store
\* fail.
RECURSIVE NextPages(_, _, _, _, _)
NextPages(answers, i, pages, fetches, e) ==
    IF ~HasMorePages(answers, i)
    THEN [pages |-> pages, err |-> NoErr, fetches |-> fetches]
    ELSE IF e.prim # "ok" /\ e.page = i
    THEN [pages |-> <<>>, err |-> PrimErr(e),
          fetches |-> Append(fetches, PageCall(i, PrimErr(e)))]
    ELSE NextPages(answers, i + 1, Append(pages, answers[i]),
                   Append(fetches, PageCall(i, NoErr)), e)

\* liveS3Handler.ListAllObjects: every page of the listing, or an error and
\* no page.
ListAllObjects(listing, e) ==
    NextPages(Answers(listing), 1, <<>>, <<>>, e)

-----------------------------------------------------------------------------
(* The connection resolver. *)

\* A faulty parseS3Path: the path is split at every separator, so the key
\* is only what lies between the third and the fourth.
parseS3PathSplitAll(path) ==
    LET stringsArray == Split(path, Slash) IN
    IF Len(stringsArray) < 4
    THEN [bucket |-> <<>>, key |-> <<>>, err |-> Err("invalid s3 path", path, "")]
    ELSE [bucket |-> stringsArray[3], key |-> stringsArray[4], err |-> NoErr]

\* parseS3Path(path)
parseS3Path(path) ==
    LET stringsArray == SplitN(path, Slash, 4) IN
    IF Len(stringsArray) < 4
    THEN [bucket |-> <<>>, key |-> <<>>, err |-> Err("invalid s3 path", path, "")]
    ELSE [bucket |-> stringsArray[3], key |-> stringsArray[4], err |-> NoErr]

\* Client.newS3Handler(ctx, region), the k-th handler an operation builds:
\* from the provided config with the region and path style set, or from the
\* default config, whose loading failure ends the process (log.Fatalf).
newS3Handler(c, region, k, e) ==
    IF c.providedConfig
    THEN [fatal |-> FALSE, handler |-> [region |-> region, usePathStyle |-> TRUE]]
    ELSE IF e.cfgFail = k
    THEN [fatal |-> TRUE, handler |-> NoHandler]
    ELSE [fatal |-> FALSE, handler |-> [region |-> region, usePathStyle |-> FALSE]]

\* A faulty getRegionForBucket: the constraint is returned as it is, the
\* empty one too.
getRegionForBucketVerbatim(svc, name, e) ==
    LET resp == GetBucketLocation(svc, name, e)
        call == <<NetCall("GetBucketLocation", svc, name, <<>>, "", <<>>, "",
                          resp.err)>> IN
    IF resp.err # NoErr
    THEN [region |-> "",
          err |-> Err("failed to get location for bucket", name, resp.err.kind),
          net |-> call]
    ELSE [region |-> resp.LocationConstraint, err |-> NoErr, net |-> call]

\* A faulty getRegionForBucket: the error of the lookup is returned as it
\* came, without the bucket.
getRegionForBucketRawErr(svc, name, e) ==
    LET resp == GetBucketLocation(svc, name, e)
        call == <<NetCall("GetBucketLocation", svc, name, <<>>, "", <<>>, "",
                          resp.err)>> IN
    IF resp.err # NoErr
    THEN [region |-> "", err |-> resp.err, net |-> call]
    ELSE IF resp.LocationConstraint = ""
    THEN [region |-> defaultLocation, err |-> NoErr, net |-> call]
    ELSE [region |-> resp.LocationConstraint, err |-> NoErr, net |-> call]

\* getRegionForBucket(ctx, svc, name)
getRegionForBucket(svc, name, e) ==
    LET resp == GetBucketLocation(svc, name, e)
        call == <<NetCall("GetBucketLocation", svc, name, <<>>, "", <<>>, "",
                          resp.err)>> IN
    IF resp.err # NoErr
    THEN [region |-> "",
          err |-> Err("failed to get location for bucket", name, resp.err.kind),
          net |-> call]
    ELSE IF resp.LocationConstraint = ""
    THEN [region |-> defaultLocation, err |-> NoErr, net |-> call]
    ELSE [region |-> resp.LocationConstraint, err |-> NoErr, net |-> call]

NoConn == [handler |-> NoHandler, bucket |-> <<>>, key |-> <<>>]

\* A faulty s3ConnectionInformation: the region is looked up before the
\* error of the parse is checked.
s3ConnectionInformationLookupFirst(c, path, region, e) ==
    LET parsed == parseS3Path(path)
        boot == newS3Handler(c, defaultLocation, 1, e)
        found == getRegionForBucket(boot.handler, parsed.bucket, e)
        bound == IF region = ""
                 THEN newS3Handler(c, found.region, 2, e)
                 ELSE newS3Handler(c, region, 1, e)
        none == [made |-> FALSE, conn |-> NoConn, err |-> NoErr,
                 net |-> <<>>, exit |-> FALSE] IN
    IF region = "" /\ boot.fatal THEN [none EXCEPT !.exit = TRUE]
    ELSE IF region = "" /\ found.err # NoErr
         THEN [none EXCEPT !.err = found.err, !.net = found.net]
    ELSE IF parsed.err # NoErr
         THEN [none EXCEPT !.err = parsed.err,
                           !.net = IF region = "" THEN found.net ELSE <<>>]
    ELSE IF bound.fatal
         THEN [none EXCEPT !.exit = TRUE,
                           !.net = IF region = "" THEN found.net ELSE <<>>]
    ELSE [made |-> TRUE,
          conn |-> [handler |-> bound.handler, bucket |-> parsed.bucket,
                    key |-> parsed.key],
          err |-> NoErr,
          net |-> IF region = "" THEN found.net ELSE <<>>,
          exit |-> FALSE]

\* A faulty s3ConnectionInformation: the region is looked up whether or not
\* one was passed in.
s3ConnectionInformationAlwaysLookup(c, path, region, e) ==
    LET parsed == parseS3Path(path)
        boot == newS3Handler(c, defaultLocation, 1, e)
        found == getRegionForBucket(boot.handler, parsed.bucket, e)
        bound == newS3Handler(c, IF region = "" THEN found.region ELSE region,
                              2, e)
        none == [made |-> FALSE, conn |-> NoConn, err |-> NoErr,
                 net |-> <<>>, exit |-> FALSE] IN
    IF parsed.err # NoErr THEN [none EXCEPT !.err = parsed.err]
    ELSE IF boot.fatal THEN [none EXCEPT !.exit = TRUE]
    ELSE IF found.err # NoErr
         THEN [none EXCEPT !.err = found.err, !.net = found.net]
    ELSE IF bound.fatal THEN [none EXCEPT !.exit = TRUE, !.net = found.net]
    ELSE [made |-> TRUE,
          conn |-> [handler |-> bound.handler, bucket |-> parsed.bucket,
                    key |-> parsed.key],
          err |-> NoErr, net |-> found.net, exit |-> FALSE]

\* Client.s3ConnectionInformation(path, region): the descriptor, the error,
\* the calls issued, and whether the process ended on the way.
s3ConnectionInformation(c, path, region, e) ==
    LET parsed == parseS3Path(path)
        boot == newS3Handler(c, defaultLocation, 1, e)
        found == getRegionForBucket(boot.handler, parsed.bucket, e)
        bound == IF region = ""
                 THEN newS3Handler(c, found.region, 2, e)
                 ELSE newS3Handler(c, region, 1, e)
        none == [made |-> FALSE, conn |-> NoConn, err |-> NoErr,
                 net |-> <<>>, exit |-> FALSE] IN
    IF parsed.err # NoErr THEN [none EXCEPT !.err = parsed.err]
    ELSE IF region = "" /\ boot.fatal THEN [none EXCEPT !.exit = TRUE]
    ELSE IF region = "" /\ found.err # NoErr
         THEN [none EXCEPT !.err = found.err, !.net = found.net]
    ELSE IF bound.fatal
         THEN [none EXCEPT !.exit = TRUE,
                           !.net = IF region = "" THEN found.net ELSE <<>>]
    ELSE [made |-> TRUE,
          conn |-> [handler |-> bound.handler, bucket |-> parsed.bucket,
                    key |-> parsed.key],
          err |-> NoErr,
          net |-> IF region = "" THEN found.net ELSE <<>>,
          exit |-> FALSE]

-----------------------------------------------------------------------------
(* The remote backend. *)

\* A faulty s3FileReader: it asks whether the object is there before it
\* gets it.
s3FileReaderHeadFirst(s3Conn, st, e) ==
    LET head == HeadObject(st, s3Conn.bucket, s3Conn.key, e)
        resp == GetObject(st, s3Conn.bucket, s3Conn.key, e)
        c1 == <<NetCall("HeadObject", s3Conn.handler, s3Conn.bucket,
                        s3Conn.key, "", <<>>, "", head)>>
        c2 == <<NetCall("GetObject", s3Conn.handler, s3Conn.bucket,
                        s3Conn.key, "", <<>>, "", resp.err)>> IN
    IF head # NoErr
    THEN [rc |-> "nil", body |-> <<>>, err |-> head, net |-> c1]
    ELSE IF resp.err # NoErr
    THEN [rc |-> "nil", body |-> <<>>, err |-> resp.err, net |-> c1 \o c2]
    ELSE [rc |-> "body", body |-> resp.Body, err |-> NoErr, net |-> c1 \o c2]

\* s3FileReader(ctx, s3Conn)
s3FileReader(s3Conn, st, e) ==
    LET resp == GetObject(st, s3Conn.bucket, s3Conn.key, e)
        call == <<NetCall("GetObject", s3Conn.handler, s3Conn.bucket,
                          s3Conn.key, "", <<>>, "", resp.err)>> IN
    IF resp.err # NoErr
    THEN [rc |-> "nil", body |-> <<>>, err |-> resp.err, net |-> call]
    ELSE [rc |-> "body", body |-> resp.Body, err |-> NoErr, net |-> call]

\* A faulty writeToS3: the attribute is set whatever the flag says.
writeToS3AlwaysEncrypt(s3Conn, input, disableEncryption, st, e) ==
    LET sse == aesAlgo
        resp == PutObject(st, s3Conn.bucket, s3Conn.key, input, sse, e) IN
    [err |-> resp.err, store |-> resp.store,
     net |-> <<NetCall("PutObject", s3Conn.handler, s3Conn.bucket,
                       s3Conn.key, "", Rest(input), sse, resp.err)>>]

\* writeToS3(ctx, s3Conn, input, disableEncryption)
writeToS3(s3Conn, input, disableEncryption, st, e) ==
    LET sse == IF ~disableEncryption THEN aesAlgo ELSE ""
        resp == PutObject(st, s3Conn.bucket, s3Conn.key, input, sse, e) IN
    [err |-> resp.err, store |-> resp.store,
     net |-> <<NetCall("PutObject", s3Conn.handler, s3Conn.bucket,
                       s3Conn.key, "", Rest(input), sse, resp.err)>>]

\* deleteS3Object(ctx, s3Conn)
deleteS3Object(s3Conn, st, e) ==
    LET resp == DeleteObject(st, s3Conn.bucket, s3Conn.key, e) IN
    [err |-> resp.err, store |-> resp.store,
     net |-> <<NetCall("DeleteObject", s3Conn.handler, s3Conn.bucket,
                       s3Conn.key, "", <<>>, "", resp.err)>>]

\* A faulty existsS3: the not-found error is returned like any other.
existsS3Raw(s3Conn, st, e) ==
    LET err == HeadObject(st, s3Conn.bucket, s3Conn.key, e)
        call == <<NetCall("HeadObject", s3Conn.handler, s3Conn.bucket,
                          s3Conn.key, "", <<>>, "", err)>> IN
    IF err # NoErr
    THEN [ok |-> FALSE, err |-> err, net |-> call]
    ELSE [ok |-> TRUE, err |-> NoErr, net |-> call]

\* existsS3(ctx, s3Conn)
existsS3(s3Conn, st, e) ==
    LET err == HeadObject(st, s3Conn.bucket, s3Conn.key, e)
        call == <<NetCall("HeadObject", s3Conn.handler, s3Conn.bucket,
                          s3Conn.key, "", <<>>, "", err)>> IN
    IF err # NoErr
    THEN IF IsAPIError(err)
         THEN IF IsNotFoundType(err)
              THEN [ok |-> FALSE, err |-> NoErr, net |-> call]
              ELSE [ok |-> FALSE, err |-> err, net |-> call]
         ELSE [ok |-> FALSE, err |-> err, net |-> call]
    ELSE [ok |-> TRUE, err |-> NoErr, net |-> call]

\* elementInSlice(slice, elem)
elementInSlice(slice, elem) == \E i \in 1..Len(slice) : slice[i] = elem

\* A faulty loop of lsS3: no common prefix is dropped.
RECURSIVE lsS3PagesKeepAll(_, _, _)
lsS3PagesKeepAll(pages, i, finalResults) ==
    IF i > Len(pages) THEN finalResults
    ELSE LET page == pages[i]
             results == page.CommonPrefixes \o page.Contents
         IN lsS3PagesKeepAll(pages, i + 1, finalResults \o results)

\* A faulty loop of lsS3: a page's content keys come before its prefixes.
RECURSIVE lsS3PagesContentsFirst(_, _, _)
lsS3PagesContentsFirst(pages, i, finalResults) ==
    IF i > Len(pages) THEN finalResults
    ELSE LET page == pages[i]
             CommonPrefixes ==
                 IF /\ Len(page.CommonPrefixes) > 0
                    /\ elementInSlice(finalResults, page.CommonPrefixes[1])
                 THEN Tail(page.CommonPrefixes)
                 ELSE page.CommonPrefixes
             results == page.Contents \o CommonPrefixes
         IN lsS3PagesContentsFirst(pages, i + 1, finalResults \o results)

\* The loop of lsS3 over the pages from page i on, finalResults so far.
RECURSIVE lsS3Pages(_, _, _)
lsS3Pages(pages, i, finalResults) ==
    IF i > Len(pages) THEN finalResults
    ELSE LET page == pages[i]
             CommonPrefixes ==
                 IF /\ Len(page.CommonPrefixes) > 0
                    /\ elementInSlice(finalResults, page.CommonPrefixes[1])
                 THEN Tail(page.CommonPrefixes)
                 ELSE page.CommonPrefixes
             results == CommonPrefixes \o page.Contents
         IN lsS3Pages(pages, i + 1, finalResults \o results)

\* lsS3(ctx, s3Conn); listing is what the store has to list.
lsS3(s3Conn, listing, e) ==
    LET resp == ListAllObjects(listing, e)
        call == <<NetCall("ListAllObjects", s3Conn.handler, s3Conn.bucket,
                          s3Conn.key, Slash, <<>>, "", resp.err)>> IN
    IF resp.err # NoErr
    THEN [names |-> <<>>, err |-> resp.err, net |-> call,
          fetches |-> resp.fetches]
    ELSE [names |-> lsS3Pages(resp.pages, 1, <<>>), err |-> NoErr, net |-> call,
          fetches |-> resp.fetches]

-----------------------------------------------------------------------------
(* The six operations of the Client.  Each yields what the call returned   *)
(* (or that the process ended), the calls it issued and the file system    *)
(* and store it left.                                                      *)

\* An operation that has returned nil and touched nothing.
Ret(dk, st) ==
    [outcome |-> "returned", err |-> NoErr, ok |-> FALSE, rc |-> "nil",
     body |-> <<>>, names |-> <<>>, made |-> FALSE, conn |-> NoConn,
     net |-> <<>>, sys |-> <<>>, fetches |-> <<>>, disk |-> dk, store |-> st]

\* What an operation yields when resolving the connection did not give one.
Unresolved(dk, st, ci) ==
    [Ret(dk, st) EXCEPT !.outcome = IF ci.exit THEN "exited" ELSE "returned",
                        !.err = ci.err, !.net = ci.net]

\* A faulty Reader: the prefix it looks for is one separator short.
ReaderShortPrefix(c, dk, st, path, e) ==
    IF HasPrefix(path, <<"s", "3", ":", "/">>)
    THEN LET ci == s3ConnectionInformation(c, path, c.Region, e)
             r == s3FileReader(ci.conn, st, e) IN
         IF ~ci.made THEN Unresolved(dk, st, ci)
         ELSE [Ret(dk, st) EXCEPT !.err = r.err, !.rc = r.rc, !.body = r.body,
                                  !.made = TRUE, !.conn = ci.conn,
                                  !.net = ci.net \o r.net]
    ELSE LET f == Open(dk, path, e) IN
         [Ret(dk, st) EXCEPT !.err = f.err,
                             !.rc = IF f.err = NoErr THEN f.node.kind ELSE "nil",
                             !.body = f.node.data,
                             !.sys = <<SysCall("Open", path, f.err)>>]

\* Client.Reader(path)
Reader(c, dk, st, path, e) ==
    IF HasPrefix(path, S3Scheme)
    THEN LET ci == s3ConnectionInformation(c, path, c.Region, e)
             r == s3FileReader(ci.conn, st, e) IN
         IF ~ci.made THEN Unresolved(dk, st, ci)
         ELSE [Ret(dk, st) EXCEPT !.err = r.err, !.rc = r.rc, !.body = r.body,
                                  !.made = TRUE, !.conn = ci.conn,
                                  !.net = ci.net \o r.net]
    ELSE LET f == Open(dk, path, e) IN
         [Ret(dk, st) EXCEPT !.err = f.err,
                             !.rc = IF f.err = NoErr THEN f.node.kind ELSE "nil",
                             !.body = f.node.data,
                             !.sys = <<SysCall("Open", path, f.err)>>]

\* A faulty WriteReader: the input is not moved to its start.
WriteReaderNoRewind(c, dk, st, path, input, e) ==
    IF HasPrefix(path, S3Scheme)
    THEN LET ci == s3ConnectionInformation(c, path, c.Region, e)
             w == writeToS3(ci.conn, input, c.disableS3Encryption, st, e) IN
         IF ~ci.made THEN Unresolved(dk, st, ci)
         ELSE [Ret(dk, st) EXCEPT !.err = w.err, !.store = w.store,
                                  !.made = TRUE, !.conn = ci.conn,
                                  !.net = ci.net \o w.net]
    ELSE LET w == writeToLocalFile(dk, path, input, e) IN
         [Ret(dk, st) EXCEPT !.err = w.err, !.disk = w.disk, !.sys = w.sys]

\* A faulty WriteReader: only the error of the Seek is checked, not the
\* offset it returned.
WriteReaderErrOnly(c, dk, st, path, input, e) ==
    LET sk == SeekStart(input) IN
    IF sk.err # NoErr
    THEN [Ret(dk, st) EXCEPT
            !.err = Err("failed to reset the file pointer to 0", <<>>, sk.err.kind)]
    ELSE IF HasPrefix(path, S3Scheme)
    THEN LET ci == s3ConnectionInformation(c, path, c.Region, e)
             w == writeToS3(ci.conn, sk.input, c.disableS3Encryption, st, e) IN
         IF ~ci.made THEN Unresolved(dk, st, ci)
         ELSE [Ret(dk, st) EXCEPT !.err = w.err, !.store = w.store,
                                  !.made = TRUE, !.conn = ci.conn,
                                  !.net = ci.net \o w.net]
    ELSE LET w == writeToLocalFile(dk, path, sk.input, e) IN
         [Ret(dk, st) EXCEPT !.err = w.err, !.disk = w.disk, !.sys = w.sys]

\* Client.WriteReader(path, input)
WriteReader(c, dk, st, path, input, e) ==
    LET sk == SeekStart(input) IN
    IF sk.err # NoErr \/ sk.offset # 0
    THEN [Ret(dk, st) EXCEPT
            !.err = Err("failed to reset the file pointer to 0", <<>>, sk.err.kind)]
    ELSE IF HasPrefix(path, S3Scheme)
    THEN LET ci == s3ConnectionInformation(c, path, c.Region, e)
             w == writeToS3(ci.conn, sk.input, c.disableS3Encryption, st, e) IN
         IF ~ci.made THEN Unresolved(dk, st, ci)
         ELSE [Ret(dk, st) EXCEPT !.err = w.err, !.store = w.store,
                                  !.made = TRUE, !.conn = ci.conn,
                                  !.net = ci.net \o w.net]
    ELSE LET w == writeToLocalFile(dk, path, sk.input, e) IN
         [Ret(dk, st) EXCEPT !.err = w.err, !.disk = w.disk, !.sys = w.sys]

\* Client.Write(path, input)
Write(c, dk, st, path, input, e) ==
    WriteReader(c, dk, st, path, NewReader(input), e)

\* Client.Delete(path)
Delete(c, dk, st, path, e) ==
    IF HasPrefix(path, S3Scheme)
    THEN LET ci == s3ConnectionInformation(c, path, c.Region, e)
             d == deleteS3Object(ci.conn, st, e) IN
         IF ~ci.made THEN Unresolved(dk, st, ci)
         ELSE [Ret(dk, st) EXCEPT !.err = d.err, !.store = d.store,
                                  !.made = TRUE, !.conn = ci.conn,
                                  !.net = ci.net \o d.net]
    ELSE LET d == Remove(dk, path, e) IN
         [Ret(dk, st) EXCEPT !.err = d.err, !.disk = d.disk,
                             !.sys = <<SysCall("Remove", path, d.err)>>]

\* Client.ListFiles(path)
ListFiles(c, dk, st, path, listing, e) ==
    IF HasPrefix(path, S3Scheme)
    THEN LET ci == s3ConnectionInformation(c, path, c.Region, e)
             l == lsS3(ci.conn, listing, e) IN
         IF ~ci.made THEN Unresolved(dk, st, ci)
         ELSE [Ret(dk, st) EXCEPT !.err = l.err, !.names = l.names,
                                  !.made = TRUE, !.conn = ci.conn,
                                  !.net = ci.net \o l.net,
                                  !.fetches = l.fetches]
    ELSE LET l == lsLocal(dk, path, e) IN
         [Ret(dk, st) EXCEPT !.err = l.err, !.names = l.names, !.sys = l.sys]

\* Client.Exists(path)
Exists(c, dk, st, path, e) ==
    IF HasPrefix(path, S3Scheme)
    THEN LET ci == s3ConnectionInformation(c, path, c.Region, e)
             x == existsS3(ci.conn, st, e) IN
         IF ~ci.made THEN Unresolved(dk, st, ci)
         ELSE [Ret(dk, st) EXCEPT !.err = x.err, !.ok = x.ok,
                                  !.made = TRUE, !.conn = ci.conn,
                                  !.net = ci.net \o x.net]
    ELSE LET x == existsLocal(dk, path, e) IN
         [Ret(dk, st) EXCEPT !.err = x.err, !.ok = x.ok, !.sys = x.sys]

-----------------------------------------------------------------------------
(* The inputs of an operation that the environment decides: which call     *)
(* fails, and what the region lookup answers.  An operation returns at its *)
(* first failing call, so at most one call fails per operation.            *)

NoFault(lk) ==
    [osFail |-> 0, partial |-> 0, cfgFail |-> 0, lookup |-> lk, prim |-> "ok",
     page |-> 1]

\* How many bytes a failing copy may have written.
Partials == {0, 1}

\* The file-system calls of a read-only operation and of a write.
LocalEnvs == { NoFault(""), [NoFault("") EXCEPT !.osFail = 1] }

LocalWriteEnvs ==
    LocalEnvs
    \cup { [NoFault("") EXCEPT !.osFail = 2] }
    \cup { [NoFault("") EXCEPT !.osFail = 3, !.partial = n] : n \in Partials }

\* The calls of an operation on the store.
RemoteEnvs ==
    { NoFault(lk) : lk \in Constraints \cup {"fail"} }
    \cup { [NoFault("") EXCEPT !.cfgFail = 1] }
    \cup { [NoFault(lk) EXCEPT !.cfgFail = 2] : lk \in Constraints }
    \cup { [NoFault(lk) EXCEPT !.prim = f] : lk \in Constraints, f \in {"api", "net"} }

\* The environments to try an operation on a path in: those of the calls a
\* path of that form can lead to.
Envs(path, writes) ==
    IF HasPrefix(path, S3Scheme) THEN RemoteEnvs
    ELSE IF writes THEN LocalWriteEnvs
    ELSE LocalEnvs

\* The listings the store may answer a ListFiles with: pages of common
\* prefixes and content keys.  The names are atoms; the code only compares
\* them.
PrefixLists == { <<>>, <<"p/">>, <<"q/">>, <<"p/", "q/">>, <<"f">> }

ContentLists == { <<>>, <<"f">>, <<"g">> }

Pages ==
    { [CommonPrefixes |-> cp, Contents |-> ct] :
        cp \in PrefixLists, ct \in ContentLists }

\* Every listing of at most n pages.
Listings(n) == UNION { [1..k -> Pages] : k \in 0..n }

\* The listings of the specification of all six operations.
SomeListings ==
    { <<>>,
      <<[CommonPrefixes |-> <<"p/">>, Contents |-> <<"f">>]>>,
      <<[CommonPrefixes |-> <<"p/", "q/">>, Contents |-> <<"f">>],
        [CommonPrefixes |-> <<"q/">>, Contents |-> <<"g">>]>> }

-----------------------------------------------------------------------------
(* The state machine: one Client, the file system and the store.  The      *)
(* caller calls an operation, which runs to its end, and then takes its    *)
(* result and is ready to call the next one.                               *)

\* DefaultClient: no region, encryption on, no provided config.
DefaultClient ==
    [ctx |-> "Background", Region |-> "", disableS3Encryption |-> FALSE,
     providedConfig |-> FALSE]

\* NewClient(ctx, cfg): as DefaultClient, with the provided config.
NewClient == [DefaultClient EXCEPT !.providedConfig = TRUE]

\* The clients of the model: the two constructed ones, and the literal of
\* the Client's documentation (encryption off, the region set), without and
\* with a provided config.
Clients ==
    { DefaultClient, NewClient }
    \cup { [ctx |-> "Background", Region |-> "us-west-1",
             disableS3Encryption |-> TRUE, providedConfig |-> pc] :
               pc \in BOOLEAN }

\* The keys of the store: what the resolver makes of the remote paths.
ObjKeys ==
    { <<parseS3Path(p).bucket, parseS3Path(p).key>> :
        p \in { q \in RemotePaths : parseS3Path(q).err = NoErr } }

NoStream == [data |-> <<>>, pos |-> 0, seek |-> "none"]

\* What the path holds: the node of the file system for a local path, the
\* object for a remote one (nothing when the path names no key).
Held(dk, st, path) ==
    IF HasPrefix(path, S3Scheme)
    THEN LET parsed == parseS3Path(path) IN
         IF parsed.err = NoErr /\ st[<<parsed.bucket, parsed.key>>].present
         THEN FileNode(st[<<parsed.bucket, parsed.key>>].data)
         ELSE Absent
    ELSE Resolve(dk, Clean(path)).node

\* MockClient (src/pathiomock.go).  Filesystem maps a path to the string
\* stored under it; a path is any string, here an atom, and the map is
\* made before the mock is used.  A goroutine's call goes through the
\* statements of the method one at a time: "lock" before m.lock.Lock(),
\* "locked" once it holds the mutex, "unlock" when its deferred Unlock is
\* due, "returned" when the call is over (or none was made).

MockPaths == {"a", "b"}

NoEntry == [exists |-> FALSE, data |-> <<>>]
Entry(d) == [exists |-> TRUE, data |-> d]

\* The goroutines that may call the MockClient, and the mutex when no
\* goroutine holds it.
Goroutines == {"g1", "g2"}

Unlocked == "unlocked"

\* The methods of MockClient.
MockOps == {"Reader", "Write", "WriteReader"}

\* The input of a mock write: its bytes, its read position, and whether
\* reading it fails.
MockInput(d, p, r) == [data |-> d, pos |-> p, read |-> r]

NoInput == MockInput(<<>>, 0, "ok")

\* A goroutine that has called nothing yet.
NoCall ==
    [pc |-> "returned", op |-> "none", path |-> "", input |-> NoInput,
     data |-> <<>>, rc |-> "nil", body |-> <<>>, err |-> NoErr,
     touched |-> FALSE]

\* &MockClient{Filesystem: map[string]string{}}: an empty map, no error
\* set, the mutex unlocked.
NewMock ==
    [Filesystem |-> [p \in MockPaths |-> NoEntry], WriteErr |-> NoErr,
     ReaderErr |-> NoErr, WriteReaderErr |-> NoErr, lock |-> Unlocked]

\* An error a test sets in the mock.
Injected(which) == Err("injected", <<>>, which)

\* fmt.Errorf("File at '%s' not found", path)
MockNotFound(path) == Err("File not found", path, "")

\* ioutil.ReadAll(input): the bytes from the position to the end, or the
\* error of the read.
\* A faulty ReadAll: it reads the stream from its start.
ReadAllFromStart(input) ==
    IF input.read = "err" THEN [data |-> <<>>, err |-> Err("read", <<>>, "")]
    ELSE [data |-> input.data, err |-> NoErr]

\* ioutil.ReadAll(input)
ReadAll(input) ==
    IF input.read = "err"
    THEN [data |-> <<>>, err |-> Err("read", <<>>, "")]
    ELSE [data |-> Rest(input), err |-> NoErr]

\* No operation is under way.
Idle ==
    [op |-> "none", path |-> <<>>, input |-> NoStream,
     listing |-> <<>>, before |-> Absent,
     outcome |-> "returned", err |-> NoErr, ok |-> FALSE,
     rc |-> "nil", body |-> <<>>, names |-> <<>>,
     made |-> FALSE, conn |-> NoConn]

Init ==
    /\ client \in Clients
    /\ disk = [n \in FsNames |-> Absent]
    /\ store = [k \in ObjKeys |-> NoObject]
    /\ net = <<>>
    /\ sys = <<>>
    /\ last = Idle
    /\ nops = 0
    /\ mock = NewMock
    /\ gor = [g \in Goroutines |-> NoCall]

\* The caller may call an operation.
Ready == last = Idle /\ nops < MaxOps

\* A faulty end of an operation: the region of the connection it resolved
\* is stored in the client.
ApplyStoreRegion(op, path, input, listing, r) ==
    /\ last' = [op |-> op, path |-> path, input |-> input,
                listing |-> listing, before |-> Held(disk, store, path),
                outcome |-> r.outcome, err |-> r.err, ok |-> r.ok,
                rc |-> r.rc, body |-> r.body, names |-> r.names,
                made |-> r.made, conn |-> r.conn]
    /\ net' = r.net
    /\ sys' = r.sys
    /\ disk' = r.disk
    /\ store' = r.store
    /\ nops' = nops + 1
    /\ client' = IF r.made
                 THEN [client EXCEPT !.Region = r.conn.handler.region]
                 ELSE client
    /\ UNCHANGED <<mock, gor>>

\* The operation op, called with path (and input, or answered with
\* listing), has yielded r.
Apply(op, path, input, listing, r) ==
    /\ last' = [op |-> op, path |-> path, input |-> input,
                listing |-> listing, before |-> Held(disk, store, path),
                outcome |-> r.outcome, err |-> r.err, ok |-> r.ok,
                rc |-> r.rc, body |-> r.body, names |-> r.names,
                made |-> r.made, conn |-> r.conn]
    /\ net' = r.net
    /\ sys' = r.sys
    /\ disk' = r.disk
    /\ store' = r.store
    /\ nops' = nops + 1
    /\ UNCHANGED <<client, mock, gor>>

DoReader ==
    /\ Ready
    /\ \E path \in Paths : \E e \in Envs(path, FALSE) :
         Apply("Reader", path, NoStream, <<>>,
               Reader(client, disk, store, path, e))

DoWrite ==
    /\ Ready
    /\ \E path \in Paths, b \in Contents : \E e \in Envs(path, TRUE) :
         Apply("Write", path, NewReader(b), <<>>,
               Write(client, disk, store, path, b, e))

DoWriteReader ==
    /\ Ready
    /\ \E path \in Paths, input \in Streams : \E e \in Envs(path, TRUE) :
         Apply("WriteReader", path, input, <<>>,
               WriteReader(client, disk, store, path, input, e))

DoDelete ==
    /\ Ready
    /\ \E path \in Paths : \E e \in Envs(path, FALSE) :
         Apply("Delete", path, NoStream, <<>>,
               Delete(client, disk, store, path, e))

DoListFiles ==
    /\ Ready
    /\ \E path \in Paths, listing \in SomeListings : \E e \in Envs(path, FALSE) :
         Apply("ListFiles", path, NoStream, listing,
               ListFiles(client, disk, store, path, listing, e))

DoExists ==
    /\ Ready
    /\ \E path \in Paths : \E e \in Envs(path, FALSE) :
         Apply("Exists", path, NoStream, <<>>,
               Exists(client, disk, store, path, e))

\* The caller takes the result of the operation that returned; after a
\* process exit there is no caller left.
Return ==
    /\ last # Idle
    /\ last.outcome = "returned"
    /\ last' = Idle
    /\ net' = <<>>
    /\ sys' = <<>>
    /\ UNCHANGED <<client, disk, store, nops, mock, gor>>

Next ==
    \/ DoReader
    \/ DoWrite
    \/ DoWriteReader
    \/ DoDelete
    \/ DoListFiles
    \/ DoExists
    \/ Return

Spec == Init /\ [][Next]_vars

-----------------------------------------------------------------------------
(* The resolver on its own, on every path of the scheme followed by at     *)
(* most MaxTail characters.                                                *)

TailChars == {"b", "k", Slash}

Tails(n) == UNION { [1..k -> TailChars] : k \in 0..n }

ResolvePaths == { S3Scheme \o t : t \in Tails(MaxTail) }

DoResolve ==
    /\ Ready
    /\ \E path \in ResolvePaths, e \in RemoteEnvs :
         LET ci == s3ConnectionInformation(client, path, client.Region, e) IN
         /\ last' = [Idle EXCEPT !.op = "s3ConnectionInformation",
                                 !.path = path,
                                 !.outcome = IF ci.exit THEN "exited" ELSE "returned",
                                 !.err = ci.err, !.made = ci.made,
                                 !.conn = ci.conn]
         /\ net' = ci.net
         /\ sys' = <<>>
         /\ nops' = nops + 1
         /\ UNCHANGED <<client, disk, store, mock, gor>>

NextResolve ==
    \/ DoResolve
    \/ Return

SpecResolve == Init /\ [][NextResolve]_vars

-----------------------------------------------------------------------------
(* ListFiles on its own, answered with every listing of at most MaxPages   *)
(* pages.                                                                  *)

\* The paths ListFiles is called with here: one listed by the store, one
\* the resolver rejects, one local.
ListPaths ==
    { S3Scheme \o <<"b", "/", "d", "/", "k">>, S3Scheme \o <<"b">>, <<"d">> }

DoListPages ==
    /\ Ready
    /\ \E path \in ListPaths, listing \in Listings(MaxPages) :
         \E e \in Envs(path, FALSE) :
           Apply("ListFiles", path, NoStream, listing,
                 ListFiles(client, disk, store, path, listing, e))

NextLs ==
    \/ DoListPages
    \/ Return

SpecLs == Init /\ [][NextLs]_vars

-----------------------------------------------------------------------------
(* Remote ListFiles with the requests of the pager: the environment has    *)
(* any one request of the listing fail, and the log of the operation       *)
(* holds, after the calls of the handler, the requests the pager made in   *)
(* ListAllObjects.                                                         *)

PagedPaths == { S3Scheme \o <<"b", "/", "d", "/", "k">>, S3Scheme \o <<"b">> }

PagingEnvs ==
    { NoFault("") }
    \cup { [NoFault("") EXCEPT !.prim = f, !.page = i] :
             f \in {"api", "net"}, i \in 1..MaxPages }

DoListPaged ==
    /\ Ready
    /\ \E path \in PagedPaths, listing \in Listings(MaxPages) :
         \E e \in PagingEnvs :
           LET r == ListFiles(client, disk, store, path, listing, e) IN
           Apply("ListFiles", path, NoStream, listing,
                 [r EXCEPT !.net = r.net \o r.fetches])

NextPaging ==
    \/ DoListPaged
    \/ Return

SpecPaging == Init /\ [][NextPaging]_vars

-----------------------------------------------------------------------------
(* One caller writing, deleting and testing one local path, call after     *)
(* call; the log of the file-system calls of the whole run is kept.        *)

LocalSeqPaths == { <<"d", "/", "f">> }

InitLocal ==
    /\ client = DefaultClient
    /\ disk = [n \in FsNames |-> Absent]
    /\ store = [k \in ObjKeys |-> NoObject]
    /\ net = <<>>
    /\ sys = <<>>
    /\ last = Idle
    /\ nops = 0
    /\ mock = NewMock
    /\ gor = [g \in Goroutines |-> NoCall]

\* The caller may make the next call of the run.
ReadyLocal == last = Idle /\ nops < MaxCalls

\* The operation op, called with path, has yielded r; its file-system calls
\* are appended to the log of the run.
LoggedLocal(op, path, input, r) ==
    /\ last' = [op |-> op, path |-> path, input |-> input,
                listing |-> <<>>, before |-> Held(disk, store, path),
                outcome |-> r.outcome, err |-> r.err, ok |-> r.ok,
                rc |-> r.rc, body |-> r.body, names |-> r.names,
                made |-> r.made, conn |-> r.conn]
    /\ net' = r.net
    /\ sys' = sys \o r.sys
    /\ disk' = r.disk
    /\ store' = r.store
    /\ nops' = nops + 1
    /\ UNCHANGED <<client, mock, gor>>

LocWrite ==
    /\ ReadyLocal
    /\ \E path \in LocalSeqPaths, e \in LocalWriteEnvs :
         LoggedLocal("Write", path, NewReader(<<7>>),
                     Write(client, disk, store, path, <<7>>, e))

LocDelete ==
    /\ ReadyLocal
    /\ \E path \in LocalSeqPaths, e \in LocalEnvs :
         LoggedLocal("Delete", path, NoStream,
                     Delete(client, disk, store, path, e))

LocExists ==
    /\ ReadyLocal
    /\ \E path \in LocalSeqPaths, e \in LocalEnvs :
         LoggedLocal("Exists", path, NoStream,
                     Exists(client, disk, store, path, e))

\* The caller takes the result; the log of the run stays.
Keep ==
    /\ last # Idle
    /\ last' = Idle
    /\ UNCHANGED <<client, disk, store, net, sys, nops, mock, gor>>

NextLocal ==
    \/ LocWrite
    \/ LocDelete
    \/ LocExists
    \/ Keep

SpecLocal == InitLocal /\ [][NextLocal]_vars

-----------------------------------------------------------------------------
(* A run of remote operations on the keys of one bucket, with the calls    *)
(* of the whole run kept in net: an operation appends its calls, and the   *)
(* caller taking a result leaves the log as it is.                         *)

SeqPaths ==
    { S3Scheme \o <<"b", "/", "k">>, S3Scheme \o <<"b", "/", "d", "/", "k">> }

\* The lookup answers or fails, the store call fails, or the default
\* config does not load.
SeqEnvs ==
    { NoFault(lk) : lk \in Constraints \cup {"fail"} }
    \cup { [NoFault("") EXCEPT !.prim = "api"],
           [NoFault("") EXCEPT !.cfgFail = 1] }

\* The operation op, called with path, has yielded r; its calls go to the
\* end of the log.
Logged(op, path, input, r) ==
    /\ last' = [op |-> op, path |-> path, input |-> input,
                listing |-> <<>>, before |-> Held(disk, store, path),
                outcome |-> r.outcome, err |-> r.err, ok |-> r.ok,
                rc |-> r.rc, body |-> r.body, names |-> r.names,
                made |-> r.made, conn |-> r.conn]
    /\ net' = net \o r.net
    /\ sys' = r.sys
    /\ disk' = r.disk
    /\ store' = r.store
    /\ nops' = nops + 1
    /\ UNCHANGED <<client, mock, gor>>

SeqReader ==
    /\ Ready
    /\ \E path \in SeqPaths, e \in SeqEnvs :
         Logged("Reader", path, NoStream, Reader(client, disk, store, path, e))

SeqWrite ==
    /\ Ready
    /\ \E path \in SeqPaths, e \in SeqEnvs :
         Logged("Write", path, NewReader(<<7>>),
                Write(client, disk, store, path, <<7>>, e))

SeqWriteReader ==
    /\ Ready
    /\ \E path \in SeqPaths, e \in SeqEnvs :
         LET input == [data |-> <<8, 9>>, pos |-> 1, seek |-> "ok"] IN
         Logged("WriteReader", path, input,
                WriteReader(client, disk, store, path, input, e))

SeqDelete ==
    /\ Ready
    /\ \E path \in SeqPaths, e \in SeqEnvs :
         Logged("Delete", path, NoStream, Delete(client, disk, store, path, e))

SeqListFiles ==
    /\ Ready
    /\ \E path \in SeqPaths, e \in SeqEnvs :
         Logged("ListFiles", path, NoStream,
                ListFiles(client, disk, store, path, <<>>, e))

SeqExists ==
    /\ Ready
    /\ \E path \in SeqPaths, e \in SeqEnvs :
         Logged("Exists", path, NoStream, Exists(client, disk, store, path, e))

\* The caller takes the result; the log of the run stays.
Carry ==
    /\ last # Idle
    /\ last.outcome = "returned"
    /\ last' = Idle
    /\ sys' = <<>>
    /\ UNCHANGED <<client, disk, store, net, nops, mock, gor>>

NextSeq ==
    \/ SeqReader
    \/ SeqWrite
    \/ SeqWriteReader
    \/ SeqDelete
    \/ SeqListFiles
    \/ SeqExists
    \/ Carry

SpecSeq == Init /\ [][NextSeq]_vars

-----------------------------------------------------------------------------
(* The region lookup on its own: getRegionForBucket through a handler of   *)
(* the default region, for every bucket name the resolver makes of the     *)
(* paths above, answered with every constraint or failing.  The record of  *)
(* the call keeps the constraint the store answered with in listing and    *)
(* the region returned in names.                                           *)

BucketNames ==
    { parseS3Path(p).bucket :
        p \in { q \in ResolvePaths : parseS3Path(q).err = NoErr } }

DoGetRegion ==
    /\ Ready
    /\ \E name \in BucketNames, b \in BOOLEAN,
          lk \in Constraints \cup {"fail"} :
         LET svc == [region |-> defaultLocation, usePathStyle |-> b]
             resp == GetBucketLocation(svc, name, NoFault(lk))
             found == getRegionForBucket(svc, name, NoFault(lk)) IN
         /\ last' = [Idle EXCEPT !.op = "getRegionForBucket",
                                 !.path = name,
                                 !.listing = <<resp.LocationConstraint>>,
                                 !.names = <<found.region>>,
                                 !.err = found.err]
         /\ net' = found.net
         /\ sys' = <<>>
         /\ nops' = nops + 1
         /\ UNCHANGED <<client, disk, store, mock, gor>>

NextRegion ==
    \/ DoGetRegion
    \/ Return

SpecRegion == Init /\ [][NextRegion]_vars

-----------------------------------------------------------------------------
(* The package-level functions.  DefaultClient is a variable of the        *)
(* package: it starts as the client constructed above and the program may  *)
(* assign another one to it; each function calls the method of the client  *)
(* the variable holds when it is called, here the variable client.         *)

pkgReader(dflt, dk, st, path, e) == Reader(dflt, dk, st, path, e)

\* A faulty package-level Write: it calls the client the package was
\* initialised with, not the one DefaultClient holds now.
pkgWriteInitial(dflt, dk, st, path, input, e) ==
    Write(DefaultClient, dk, st, path, input, e)

pkgWrite(dflt, dk, st, path, input, e) == Write(dflt, dk, st, path, input, e)

pkgWriteReader(dflt, dk, st, path, input, e) ==
    WriteReader(dflt, dk, st, path, input, e)

pkgDelete(dflt, dk, st, path, e) == Delete(dflt, dk, st, path, e)

pkgListFiles(dflt, dk, st, path, listing, e) ==
    ListFiles(dflt, dk, st, path, listing, e)

pkgExists(dflt, dk, st, path, e) == Exists(dflt, dk, st, path, e)

\* The paths the package-level functions are called with: two remote ones,
\* one of them invalid, and two local ones.
PkgPaths ==
    { S3Scheme \o <<"b", "/", "k">>, S3Scheme \o <<"b">>,
      <<"f">>, <<"d", "/", "f">> }

InitPkg ==
    /\ client = DefaultClient
    /\ disk = [n \in FsNames |-> Absent]
    /\ store = [k \in ObjKeys |-> NoObject]
    /\ net = <<>>
    /\ sys = <<>>
    /\ last = Idle
    /\ nops = 0
    /\ mock = NewMock
    /\ gor = [g \in Goroutines |-> NoCall]

\* The program assigns another client to DefaultClient.
SetDefaultClient ==
    /\ last = Idle
    /\ client' \in Clients \ {client}
    /\ UNCHANGED <<disk, store, net, sys, last, nops, mock, gor>>

PkgDoReader ==
    /\ Ready
    /\ \E path \in PkgPaths : \E e \in Envs(path, FALSE) :
         Apply("Reader", path, NoStream, <<>>,
               pkgReader(client, disk, store, path, e))

PkgDoWrite ==
    /\ Ready
    /\ \E path \in PkgPaths : \E e \in Envs(path, TRUE) :
         Apply("Write", path, NewReader(<<7>>), <<>>,
               pkgWrite(client, disk, store, path, <<7>>, e))

PkgDoWriteReader ==
    /\ Ready
    /\ \E path \in PkgPaths,
          input \in { [data |-> <<8, 9>>, pos |-> 1, seek |-> k] :
                        k \in {"ok", "err"} } :
         \E e \in Envs(path, TRUE) :
           Apply("WriteReader", path, input, <<>>,
                 pkgWriteReader(client, disk, store, path, input, e))

PkgDoDelete ==
    /\ Ready
    /\ \E path \in PkgPaths : \E e \in Envs(path, FALSE) :
         Apply("Delete", path, NoStream, <<>>,
               pkgDelete(client, disk, store, path, e))

PkgDoListFiles ==
    /\ Ready
    /\ \E path \in PkgPaths, listing \in SomeListings :
         \E e \in Envs(path, FALSE) :
           Apply("ListFiles", path, NoStream, listing,
                 pkgListFiles(client, disk, store, path, listing, e))

PkgDoExists ==
    /\ Ready
    /\ \E path \in PkgPaths : \E e \in Envs(path, FALSE) :
         Apply("Exists", path, NoStream, <<>>,
               pkgExists(client, disk, store, path, e))

NextPkg ==
    \/ SetDefaultClient
    \/ PkgDoReader
    \/ PkgDoWrite
    \/ PkgDoWriteReader
    \/ PkgDoDelete
    \/ PkgDoListFiles
    \/ PkgDoExists
    \/ Return

SpecPkg == InitPkg /\ [][NextPkg]_vars

-----------------------------------------------------------------------------
(* Goroutines calling one MockClient.  A call is started by MockReader,    *)
(* MockWrite or MockWriteReader, which run the method up to its Lock (or   *)
(* to its early return), and goes on with MockLock, the access to the map  *)
(* (MockGet, MockSet) and MockUnlock, each a step of its own, so that the  *)
(* calls of the goroutines interleave.                                     *)

\* The mocks a test starts with: the map empty or holding "a", and none or
\* one of the three errors set.
Mocks ==
    { [NewMock EXCEPT !.Filesystem = fs, !.WriteErr = we, !.ReaderErr = re,
                      !.WriteReaderErr = wre] :
        fs \in { [p \in MockPaths |-> NoEntry],
                 [p \in MockPaths |-> IF p = "a" THEN Entry(<<5>>) ELSE NoEntry] },
        we \in {NoErr, Injected("WriteErr")},
        re \in {NoErr, Injected("ReaderErr")},
        wre \in {NoErr, Injected("WriteReaderErr")} }

\* What Write is called with, and what WriteReader is.
MockContents == Contents

MockInputs ==
    { MockInput(<<8, 9>>, pos, "ok") : pos \in {0, 1} }
    \cup { MockInput(<<8, 9>>, 1, "err") }

InitMock ==
    /\ client = DefaultClient
    /\ disk = [n \in FsNames |-> Absent]
    /\ store = [k \in ObjKeys |-> NoObject]
    /\ net = <<>>
    /\ sys = <<>>
    /\ last = Idle
    /\ nops = 0
    /\ mock \in Mocks
    /\ gor = [g \in Goroutines |-> NoCall]

\* The goroutine g may start a call.
MockReady(g) == gor[g].pc = "returned" /\ nops < MaxOps

\* A faulty Reader: it does not look at ReaderErr.
MockReaderNoErr ==
    \E g \in Goroutines, path \in MockPaths :
      /\ MockReady(g)
      /\ gor' = [gor EXCEPT ![g] =
                   [NoCall EXCEPT !.op = "Reader", !.path = path, !.pc = "lock"]]
      /\ nops' = nops + 1
      /\ UNCHANGED <<client, disk, store, net, sys, last, mock>>

\* MockClient.Reader(path), up to the Lock.
MockReader ==
    \E g \in Goroutines, path \in MockPaths :
      /\ MockReady(g)
      /\ gor' = [gor EXCEPT ![g] =
                   IF mock.ReaderErr # NoErr
                   THEN [NoCall EXCEPT !.op = "Reader", !.path = path,
                                       !.err = mock.ReaderErr]
                   ELSE [NoCall EXCEPT !.op = "Reader", !.path = path,
                                       !.pc = "lock"]]
      /\ nops' = nops + 1
      /\ UNCHANGED <<client, disk, store, net, sys, last, mock>>

\* MockClient.Write(path, input), up to the Lock.
MockWrite ==
    \E g \in Goroutines, path \in MockPaths, b \in MockContents :
      /\ MockReady(g)
      /\ gor' = [gor EXCEPT ![g] =
                   IF mock.WriteErr # NoErr
                   THEN [NoCall EXCEPT !.op = "Write", !.path = path,
                                       !.input = MockInput(b, 0, "ok"),
                                       !.err = mock.WriteErr]
                   ELSE [NoCall EXCEPT !.op = "Write", !.path = path,
                                       !.input = MockInput(b, 0, "ok"),
                                       !.data = b, !.pc = "lock"]]
      /\ nops' = nops + 1
      /\ UNCHANGED <<client, disk, store, net, sys, last, mock>>

\* MockClient.WriteReader(path, input), up to the Lock.
MockWriteReader ==
    \E g \in Goroutines, path \in MockPaths, input \in MockInputs :
      LET read == ReadAll(input) IN
      /\ MockReady(g)
      /\ gor' = [gor EXCEPT ![g] =
                   IF read.err # NoErr
                   THEN [NoCall EXCEPT !.op = "WriteReader", !.path = path,
                                       !.input = input, !.err = read.err]
                   ELSE [NoCall EXCEPT !.op = "WriteReader", !.path = path,
                                       !.input = input, !.data = read.data,
                                       !.pc = "lock"]]
      /\ nops' = nops + 1
      /\ UNCHANGED <<client, disk, store, net, sys, last, mock>>

\* A faulty Lock: it does not wait for the mutex.
MockLockNoWait ==
    \E g \in Goroutines :
      /\ gor[g].pc = "lock"
      /\ mock' = [mock EXCEPT !.lock = g]
      /\ gor' = [gor EXCEPT ![g].pc = "locked"]
      /\ UNCHANGED <<client, disk, store, net, sys, last, nops>>

\* m.lock.Lock(): the goroutine goes on once the mutex is unlocked, and
\* holds it.
MockLock ==
    \E g \in Goroutines :
      /\ gor[g].pc = "lock"
      /\ mock.lock = Unlocked
      /\ mock' = [mock EXCEPT !.lock = g]
      /\ gor' = [gor EXCEPT ![g].pc = "locked"]
      /\ UNCHANGED <<client, disk, store, net, sys, last, nops>>

\* Reader: data, exists := m.Filesystem[path], and what is returned.
MockGet ==
    \E g \in Goroutines :
      LET entry == mock.Filesystem[gor[g].path] IN
      /\ gor[g].pc = "locked"
      /\ gor[g].op = "Reader"
      /\ gor' = [gor EXCEPT ![g] =
                   IF ~entry.exists
                   THEN [@ EXCEPT !.pc = "unlock", !.touched = TRUE,
                                  !.err = MockNotFound(gor[g].path)]
                   ELSE [@ EXCEPT !.pc = "unlock", !.touched = TRUE,
                                  !.rc = "body", !.body = entry.data]]
      /\ UNCHANGED <<client, disk, store, net, sys, last, nops, mock>>

\* A faulty store into the map: it appends to what the entry holds.
MockSetAppend ==
    \E g \in Goroutines :
      /\ gor[g].pc = "locked"
      /\ gor[g].op \in {"Write", "WriteReader"}
      /\ mock' = [mock EXCEPT !.Filesystem[gor[g].path] =
                     Entry(@.data \o gor[g].data)]
      /\ gor' = [gor EXCEPT ![g].pc = "unlock", ![g].touched = TRUE]
      /\ UNCHANGED <<client, disk, store, net, sys, last, nops>>

\* Write and WriteReader: m.Filesystem[path] = string(data).
MockSet ==
    \E g \in Goroutines :
      /\ gor[g].pc = "locked"
      /\ gor[g].op \in {"Write", "WriteReader"}
      /\ mock' = [mock EXCEPT !.Filesystem[gor[g].path] = Entry(gor[g].data)]
      /\ gor' = [gor EXCEPT ![g].pc = "unlock", ![g].touched = TRUE]
      /\ UNCHANGED <<client, disk, store, net, sys, last, nops>>

\* The deferred m.lock.Unlock(), and the return.
MockUnlock ==
    \E g \in Goroutines :
      /\ gor[g].pc = "unlock"
      /\ mock' = [mock EXCEPT !.lock = Unlocked]
      /\ gor' = [gor EXCEPT ![g].pc = "returned"]
      /\ UNCHANGED <<client, disk, store, net, sys, last, nops>>

NextMock ==
    \/ MockReader
    \/ MockWrite
    \/ MockWriteReader
    \/ MockLock
    \/ MockGet
    \/ MockSet
    \/ MockUnlock

SpecMock == InitMock /\ [][NextMock]_vars

\* The scheduler runs every goroutine that can take a step, and a mutex
\* that is unlocked is given to a goroutine waiting for it.
FairMock ==
    /\ WF_vars(MockLock)
    /\ WF_vars(MockGet)
    /\ WF_vars(MockSet)
    /\ WF_vars(MockUnlock)

SpecMockFair == SpecMock /\ FairMock

-----------------------------------------------------------------------------
(* What the claims are stated with, spelled out on the characters of the   *)
(* path and on the logs, not with the operators of the program.            *)

ClientOps == {"Reader", "Write", "WriteReader", "Delete", "ListFiles", "Exists"}

\* The path begins with the five characters s 3 : / /
IsS3Literal(path) ==
    /\ Len(path) >= 5
    /\ path[1] = "s" /\ path[2] = "3" /\ path[3] = ":"
    /\ path[4] = "/" /\ path[5] = "/"

\* Where the path has its separators, and where the n-th one is.
Slashes(path) == { i \in 1..Len(path) : path[i] = "/" }

NthSlash(path, n) ==
    CHOOSE i \in Slashes(path) :
        Cardinality({ j \in Slashes(path) : j <= i }) = n

SeekFailure(err) == err.kind = "failed to reset the file pointer to 0"

InvalidPath(err) == err.kind = "invalid s3 path"

LookupFailure(err) == err.kind = "failed to get location for bucket"

\* What a read of the path yields when no call fails.
ReadBack(c, dk, st, path) ==
    LET r == Reader(c, dk, st, path, NoFault("")) IN
    [err |-> r.err, rc |-> r.rc, body |-> r.body]

\* C1: an operation on a path that begins with the literal "s3://" issues
\* no file-system call and leaves the file system as it was, and once its
\* input is accepted it is the resolver and the store that serve it; an
\* operation on any other path issues no store call, builds no connection
\* and leaves the store as it was, and once its input is accepted it is
\* the file system that serves it.  No operation touches both.
C1_PrefixDispatch ==
    [][ last'.op \in ClientOps =>
          /\ ~(net' # <<>> /\ sys' # <<>>)
          /\ IsS3Literal(last'.path) =>
                /\ sys' = <<>> /\ disk' = disk
                /\ ~SeekFailure(last'.err) =>
                      \/ last'.made
                      \/ last'.outcome = "exited"
                      \/ InvalidPath(last'.err)
                      \/ LookupFailure(last'.err)
          /\ ~IsS3Literal(last'.path) =>
                /\ net' = <<>> /\ store' = store /\ ~last'.made
                /\ last'.outcome = "returned"
                /\ ~InvalidPath(last'.err) /\ ~LookupFailure(last'.err)
                /\ ~SeekFailure(last'.err) => sys' # <<>> ]_vars

\* A write to the path s3:/k, one separator short of the scheme, was served
\* by the file system.
C1_Witness ==
    /\ last.op = "Write"
    /\ last.path = <<"s", "3", ":", "/", "k">>
    /\ last.err = NoErr
    /\ disk[<<"s", "3", ":", "/", "k">>].kind = "file"
    /\ net = <<>>

\* C2: a write of b to p that succeeded is read back as exactly b, whatever
\* p held before, and what a path reads back as stays the same through
\* every operation that is not a write or a delete of that path (an
\* operation that leaves the file system and the store as they were
\* changes no read).
C2_RoundTrip ==
    [][ /\ ( /\ last'.op \in {"Write", "WriteReader"}
             /\ last'.outcome = "returned"
             /\ last'.err = NoErr )
           => LET r == ReadBack(client', disk', store', last'.path) IN
              /\ r.err = NoErr
              /\ r.rc \in {"file", "body"}
              /\ r.body = last'.input.data
        /\ \/ <<client, disk, store>>' = <<client, disk, store>>
           \/ \A p \in Paths :
                ( /\ ~( last'.op \in {"Write", "WriteReader", "Delete"}
                        /\ last'.path = p )
                  /\ ReadBack(client, disk, store, p).rc \in {"file", "body"} )
                => ReadBack(client', disk', store', p)
                     = ReadBack(client, disk, store, p) ]_vars

\* A local file that held two bytes was overwritten with one and holds it.
C2_Witness ==
    /\ last.op \in {"Write", "WriteReader"}
    /\ ~IsS3Literal(last.path)
    /\ last.err = NoErr
    /\ last.before.kind = "file"
    /\ Len(last.before.data) > Len(last.input.data)
    /\ ReadBack(client, disk, store, last.path).body = last.input.data

\* C3: for a remote path with at least three separators (at least 4 parts)
\* the resolver never reports an invalid path, and the descriptor it builds
\* has as bucket what lies between the second and the third separator and
\* as key everything after the third one, separators included.
C3_BucketAndKey ==
    ( /\ last.op # "none"
      /\ IsS3Literal(last.path)
      /\ Cardinality(Slashes(last.path)) >= 3 )
    => /\ ~InvalidPath(last.err)
       /\ last.made =>
            /\ last.conn.bucket =
                 SubSeq(last.path, NthSlash(last.path, 2) + 1,
                        NthSlash(last.path, 3) - 1)
            /\ last.conn.key =
                 SubSeq(last.path, NthSlash(last.path, 3) + 1, Len(last.path))
       /\ ~last.made =>
            \/ last.outcome = "exited"
            \/ LookupFailure(last.err)
            \/ last.op \in ClientOps /\ SeekFailure(last.err)

\* s3://b/k/b resolved to bucket b and key k/b.
C3_Witness ==
    /\ last.op = "s3ConnectionInformation"
    /\ last.path = S3Scheme \o <<"b", "/", "k", "/", "b">>
    /\ last.made
    /\ last.conn.bucket = <<"b">>
    /\ last.conn.key = <<"k", "/", "b">>

\* C4 as stated: on a remote path with fewer than three separators (fewer
\* than 4 parts) every operation fails with the invalid-path error and
\* issues no store call.
C4_AsStated ==
    ( /\ last.op \in ClientOps
      /\ IsS3Literal(last.path)
      /\ Cardinality(Slashes(last.path)) < 3 )
    => /\ InvalidPath(last.err)
       /\ net = <<>>

\* C4, amended: on such a path every operation returns an error and issues
\* no store call and no file-system call and builds no connection; the
\* error is the invalid-path error naming the path, except that a
\* WriteReader whose input could not be reset to offset 0 fails with the
\* seek-failure error before the path is looked at.
C4_InvalidPath ==
    ( /\ last.op \in ClientOps
      /\ IsS3Literal(last.path)
      /\ Cardinality(Slashes(last.path)) < 3 )
    => /\ net = <<>> /\ sys = <<>>
       /\ ~last.made
       /\ last.outcome = "returned"
       /\ IF last.op = "WriteReader" /\ last.input.seek # "ok"
          THEN SeekFailure(last.err)
          ELSE last.err = Err("invalid s3 path", last.path, "")

\* Delete of s3://b failed with the invalid-path error.
C4_Witness ==
    /\ last.op = "Delete"
    /\ last.path = S3Scheme \o <<"b">>
    /\ InvalidPath(last.err)
    /\ net = <<>>

\* C5 as stated: every descriptor the resolver builds has a non-empty
\* bucket and a non-empty key.
C5_NonEmpty ==
    last.made => (last.conn.bucket # <<>> /\ last.conn.key # <<>>)

\* The result of the one stat or head-object call of an Exists.
ExistsCall(n, y) ==
    IF y # <<>> THEN y[Len(y)].err ELSE n[Len(n)].err

\* C6: an Exists that returns changes neither the file system nor the
\* store and never returns (true, err); when its stat or head-object call
\* is made, it returns (true, nil) if the call succeeded, (false, nil) if
\* the call reported not-found, and (false, err) with the call's error
\* otherwise; and after a (false, nil) the same call made again, with no
\* call failing, returns (false, nil) again and changes nothing.
C6_Exists ==
    [][ (last'.op = "Exists" /\ last'.outcome = "returned") =>
          /\ disk' = disk /\ store' = store
          /\ ~(last'.ok /\ last'.err # NoErr)
          /\ (sys' # <<>> \/ last'.made) =>
                LET r == ExistsCall(net', sys') IN
                /\ r = NoErr => (last'.ok /\ last'.err = NoErr)
                /\ r.kind \in {"ENOENT", "NotFound"}
                      => (~last'.ok /\ last'.err = NoErr)
                /\ r.kind \notin {"nil", "ENOENT", "NotFound"}
                      => (~last'.ok /\ last'.err = r)
          /\ (~last'.ok /\ last'.err = NoErr) =>
                \A lk \in Constraints :
                    LET again == Exists(client', disk', store', last'.path,
                                        NoFault(lk)) IN
                    /\ ~again.ok /\ again.err = NoErr
                    /\ again.disk = disk' /\ again.store = store' ]_vars

\* Exists on a key the store does not hold returned (false, nil).
C6_Witness ==
    /\ last.op = "Exists"
    /\ last.made
    /\ net[Len(net)].api = "HeadObject"
    /\ net[Len(net)].err = S3NotFound
    /\ ~last.ok
    /\ last.err = NoErr

\* C7: a WriteReader whose input can seek never fails with the
\* seek-failure error, whatever the input's position; when it succeeds the
\* path holds the input's whole content; and what it returns, the calls it
\* issues and what it leaves behind are what the same call yields with the
\* input at position 0.
C7_Rewind ==
    [][ (last'.op = "WriteReader" /\ last'.input.seek = "ok") =>
          /\ ~SeekFailure(last'.err)
          /\ (last'.outcome = "returned" /\ last'.err = NoErr) =>
                Held(disk', store', last'.path) = FileNode(last'.input.data)
          /\ last'.input.pos # 0 =>
              \E e \in Envs(last'.path, TRUE) :
                LET r == WriteReader(client, disk, store, last'.path,
                                     [last'.input EXCEPT !.pos = 0], e) IN
                /\ r.err = last'.err /\ r.outcome = last'.outcome
                /\ r.net = net' /\ r.sys = sys'
                /\ r.disk = disk' /\ r.store = store' ]_vars

\* A stream of two bytes, positioned after the first, was written whole to
\* a remote path.
C7_Witness ==
    /\ last.op = "WriteReader"
    /\ last.input = [data |-> <<8, 9>>, pos |-> 1, seek |-> "ok"]
    /\ IsS3Literal(last.path)
    /\ last.err = NoErr
    /\ Held(disk, store, last.path) = FileNode(<<8, 9>>)

\* C8: a WriteReader whose input's Seek returns an error or lands at
\* another offset than 0 returns the seek-failure error, issues no store
\* call and no file-system call, builds no connection, and leaves the file
\* system and the store as they were, whatever the path.
C8_SeekFirst ==
    [][ (last'.op = "WriteReader" /\ last'.input.seek \in {"err", "off"}) =>
          /\ last'.outcome = "returned"
          /\ SeekFailure(last'.err)
          /\ net' = <<>> /\ sys' = <<>>
          /\ ~last'.made
          /\ disk' = disk /\ store' = store ]_vars

\* A WriteReader to a valid remote path whose input landed off 0 failed.
C8_Witness ==
    /\ last.op = "WriteReader"
    /\ last.input.seek = "off"
    /\ last.path = S3Scheme \o <<"b", "/", "k">>
    /\ SeekFailure(last.err)
    /\ net = <<>>

\* C9: every put-object request carries "AES256" as its server-side
\* encryption when the client's disableS3Encryption is false and none when
\* it is true, and its bucket, key and body are the descriptor's bucket and
\* key and the caller's input.
C9_Encryption ==
    \A i \in 1..Len(net) :
        net[i].api = "PutObject" =>
            /\ net[i].sse = (IF client.disableS3Encryption THEN "" ELSE "AES256")
            /\ net[i].bucket = last.conn.bucket
            /\ net[i].key = last.conn.key
            /\ net[i].body = last.input.data

\* A put-object request went out without the attribute.
C9_Witness ==
    /\ client.disableS3Encryption
    /\ net # <<>>
    /\ net[Len(net)].api = "PutObject"
    /\ net[Len(net)].sse = ""
    /\ net[Len(net)].err = NoErr

\* How often x occurs in the sequence s.
Count(s, x) == Cardinality({ i \in 1..Len(s) : s[i] = x })

\* C10: when a listing of two pages is merged and the second page's first
\* common prefix is the first page's last one, the result is the first
\* page's prefixes, its contents, the second page's prefixes but the first,
\* and its contents; the shared prefix, when each page names it once, is in
\* the result once.
C10_Dedup ==
    ( /\ last.op = "ListFiles"
      /\ last.made
      /\ last.err = NoErr
      /\ Len(last.listing) = 2
      /\ last.listing[1].CommonPrefixes # <<>>
      /\ last.listing[2].CommonPrefixes # <<>>
      /\ last.listing[2].CommonPrefixes[1]
           = last.listing[1].CommonPrefixes[Len(last.listing[1].CommonPrefixes)] )
    => LET p1 == last.listing[1]
           p2 == last.listing[2]
           shared == p2.CommonPrefixes[1] IN
       /\ last.names = p1.CommonPrefixes \o p1.Contents
                         \o Tail(p2.CommonPrefixes) \o p2.Contents
       /\ ( /\ Count(p1.CommonPrefixes \o p1.Contents, shared) = 1
            /\ Count(p2.CommonPrefixes \o p2.Contents, shared) = 1 )
          => Count(last.names, shared) = 1

\* The pages [p/, q/ | f] and [q/ | g] were merged to p/, q/, f, g.
C10_Witness ==
    /\ last.op = "ListFiles"
    /\ last.listing =
         <<[CommonPrefixes |-> <<"p/", "q/">>, Contents |-> <<"f">>],
           [CommonPrefixes |-> <<"q/">>, Contents |-> <<"g">>]>>
    /\ last.names = <<"p/", "q/", "f", "g">>

\* The pages from page i on, one after the other, each with its common
\* prefixes (but the first one where drop says so) before its content keys.
RECURSIVE PagesInOrder(_, _, _)
PagesInOrder(pages, i, drop) ==
    IF i > Len(pages) THEN <<>>
    ELSE LET cp == pages[i].CommonPrefixes
             kept == IF drop[i] /\ cp # <<>> THEN Tail(cp) ELSE cp
         IN kept \o pages[i].Contents \o PagesInOrder(pages, i + 1, drop)

\* C11: the list a remote ListFiles returns is, page after page in the
\* order of arrival, the page's common prefixes (all of them, or all but
\* the first) in the order of the store and then its content keys in the
\* order of the store; the one request it sends names the descriptor's
\* bucket, its key as the prefix and "/" as the delimiter.
C11_PageOrder ==
    (last.op = "ListFiles" /\ last.made) =>
       /\ Len(net) >= 1
       /\ LET req == net[Len(net)] IN
          /\ req.api = "ListAllObjects"
          /\ req.bucket = last.conn.bucket
          /\ req.key = last.conn.key
          /\ req.delimiter = "/"
          /\ \A i \in 1..(Len(net) - 1) : net[i].api = "GetBucketLocation"
       /\ last.err = NoErr =>
            \E drop \in [1..Len(last.listing) -> BOOLEAN] :
                last.names = PagesInOrder(last.listing, 1, drop)

\* Two pages with nothing to drop were listed: prefix, key, prefix, key.
C11_Witness ==
    /\ last.op = "ListFiles"
    /\ last.made
    /\ last.listing =
         <<[CommonPrefixes |-> <<"p/">>, Contents |-> <<"f">>],
           [CommonPrefixes |-> <<"q/">>, Contents |-> <<"g">>]>>
    /\ last.names = <<"p/", "f", "q/", "g">>
    /\ net[Len(net)].delimiter = "/"

\* The last common prefix among the pages before page i, <<>> when there is
\* none.
RECURSIVE LastPrefixBefore(_, _)
LastPrefixBefore(pages, i) ==
    IF i <= 1 THEN <<>>
    ELSE IF pages[i - 1].CommonPrefixes # <<>>
         THEN <<pages[i - 1].CommonPrefixes[Len(pages[i - 1].CommonPrefixes)]>>
         ELSE LastPrefixBefore(pages, i - 1)

\* C12: the first common prefix of a page is dropped exactly when it is
\* the last common prefix of the pages before it, and nothing else is
\* dropped.
C12_DropOnlyLast ==
    (last.op = "ListFiles" /\ last.made /\ last.err = NoErr) =>
       last.names =
         PagesInOrder(last.listing, 1,
            [i \in 1..Len(last.listing) |->
               /\ last.listing[i].CommonPrefixes # <<>>
               /\ <<last.listing[i].CommonPrefixes[1]>>
                    = LastPrefixBefore(last.listing, i)])

\* The region lookups among the calls of a log.
Lookups(log) == { i \in 1..Len(log) : log[i].api = "GetBucketLocation" }

\* C13: in a run of remote operations on valid paths of one bucket that
\* have all returned, a client with no Region has issued as many region
\* lookups as operations, each for that bucket and through a handler of
\* the default region, and a client with a Region has issued none and
\* binds every handler it resolves to its Region.
C13_LookupPerOp ==
    last.outcome = "returned" =>
       /\ client.Region = "" =>
            /\ Cardinality(Lookups(net)) = nops
            /\ \A i \in Lookups(net) :
                 /\ net[i].bucket = <<"b">>
                 /\ net[i].handler.region = "us-east-1"
       /\ client.Region # "" =>
            /\ Lookups(net) = {}
            /\ last.made => last.conn.handler.region = client.Region

\* The second operation of a client with no Region on the same bucket has
\* looked the region up as the first one did.
C13_Witness ==
    /\ client.Region = ""
    /\ nops = 2
    /\ last.made
    /\ Len(net) = 4
    /\ net[1].api = "GetBucketLocation"
    /\ net[3].api = "GetBucketLocation"
    /\ net[1].bucket = net[3].bucket

\* C14: a region lookup whose call succeeded returns no error, and returns
\* the constraint the store answered with when that is not empty and
\* "us-east-1" when it is.
C14_RegionDefault ==
    ( /\ last.op = "getRegionForBucket"
      /\ net[1].err = NoErr )
    => /\ last.err = NoErr
       /\ last.listing # <<"">> => last.names = last.listing
       /\ last.listing = <<"">> => last.names = <<"us-east-1">>

\* The store answered with no constraint and the lookup returned the
\* default region.
C14_Witness ==
    /\ last.op = "getRegionForBucket"
    /\ last.listing = <<"">>
    /\ last.names = <<"us-east-1">>
    /\ last.err = NoErr

\* C15: an operation whose region lookup failed returns the lookup-failure
\* error with the bucket's name and the text of the error of the call,
\* resolves no connection, and has issued that one call and no other; the
\* region the failed lookup returns is the empty one.
C15_LookupFails ==
    ( /\ last.op \in ClientOps
      /\ net # <<>>
      /\ net[1].api = "GetBucketLocation"
      /\ net[1].err # NoErr )
    => /\ Len(net) = 1
       /\ last.outcome = "returned"
       /\ last.err.kind = "failed to get location for bucket"
       /\ last.err.arg = net[1].bucket
       /\ last.err.cause = net[1].err.kind
       /\ ~last.made
       /\ last.conn = NoConn
       /\ last.rc = "nil" /\ ~last.ok /\ last.names = <<>>
       /\ getRegionForBucket(net[1].handler, net[1].bucket,
                             NoFault("fail")).region = ""

\* A Delete's region lookup failed, and the Delete returned the error that
\* names the bucket.
C15_Witness ==
    /\ last.op = "Delete"
    /\ Len(net) = 1
    /\ net[1].api = "GetBucketLocation"
    /\ net[1].err = S3AccessDenied
    /\ LookupFailure(last.err)
    /\ last.err.arg = <<"b">>

\* C16: every handler a remote operation builds, the one the region is
\* looked up through and the one of the descriptor, has path-style
\* addressing on, whatever the client.
C16_PathStyle ==
    /\ \A i \in 1..Len(net) : net[i].handler.usePathStyle
    /\ last.made => last.conn.handler.usePathStyle

\* The store primitive each operation is served by.
PrimitiveOf(op) ==
    CASE op = "Reader" -> "GetObject"
      [] op \in {"Write", "WriteReader"} -> "PutObject"
      [] op = "Delete" -> "DeleteObject"
      [] op = "Exists" -> "HeadObject"
      [] OTHER -> "ListAllObjects"

\* C17: an operation that resolved its connection has issued exactly one
\* store primitive, the one of the operation, as its last call, and before
\* it at most one call, the region lookup; an operation that did not has
\* issued no primitive; and a Reader, Write, WriteReader or Delete whose
\* primitive failed returns the error of that call as it is.
C17_OneCall ==
    last.op \in ClientOps =>
       /\ Len(net) <= 2
       /\ \A i \in 1..Len(net) :
            net[i].api # "GetBucketLocation" => (i = Len(net) /\ last.made)
       /\ Len(net) = 2 => net[1].api = "GetBucketLocation"
       /\ last.made =>
            /\ net # <<>>
            /\ net[Len(net)].api = PrimitiveOf(last.op)
            /\ net[Len(net)].handler = last.conn.handler
            /\ last.op \in {"Reader", "Write", "WriteReader", "Delete"}
                 => last.err = net[Len(net)].err
            /\ (last.op = "Reader" /\ last.err # NoErr) => last.rc = "nil"

\* A Reader looked the region up, got the object's key refused as missing
\* and returned the store's error.
C17_Witness ==
    /\ last.op = "Reader"
    /\ last.made
    /\ Len(net) = 2
    /\ net[1].api = "GetBucketLocation"
    /\ net[2].api = "GetObject"
    /\ net[2].err = S3NoSuchKey
    /\ last.err = S3NoSuchKey

\* No call of the operation failed, or only with the not-found answer that
\* Exists turns into (false, nil).
NoFailureBut(op, calls) ==
    \A i \in 1..Len(calls) :
        \/ calls[i].err = NoErr
        \/ op = "Exists" /\ calls[i].err \in {ENOENT, S3NotFound}

\* C18: every operation returns to its caller, and returns an error when
\* one of its calls failed.
C18_Returned ==
    last.op \in ClientOps =>
       /\ last.outcome = "returned"
       /\ ~(NoFailureBut(last.op, net) /\ NoFailureBut(last.op, sys))
            => last.err # NoErr

\* C19: on a local path that names nothing (every directory on the way is
\* there, the last element is not), Exists returns (false, nil), Reader
\* returns no stream and the not-exist error of its call, Delete returns
\* the not-exist error of its call, and none of them changes the file
\* system.
C19_LocalNotFound ==
    [][ ( /\ last'.op \in {"Exists", "Reader", "Delete"}
          /\ ~IsS3Literal(last'.path)
          /\ Resolve(disk, Clean(last'.path)).err = ENOENT
          /\ sys'[1].err = ENOENT )
        => /\ disk' = disk /\ store' = store
           /\ Len(sys') = 1
           /\ last'.outcome = "returned"
           /\ last'.op = "Exists" => (~last'.ok /\ last'.err = NoErr)
           /\ last'.op = "Reader" =>
                (last'.rc = "nil" /\ last'.err = sys'[1].err)
           /\ last'.op = "Delete" => last'.err = sys'[1].err ]_vars

\* Exists on a local path that names nothing answered (false, nil).
C19_Witness ==
    /\ last.op = "Exists"
    /\ last.path = <<"d", "/", "f">>
    /\ Len(sys) = 1
    /\ sys[1].err = ENOENT
    /\ ~last.ok
    /\ last.err = NoErr

\* a is the beginning of b.
IsPrefixOf(a, b) == Len(a) <= Len(b) /\ a = SubSeq(b, 1, Len(a))

\* C20: a local write calls MkdirAll on the target's directory, then
\* Create on the target, then Copy, each only when the one before
\* succeeded, and returns the error of the first that fails.  When Create
\* is called the target's directory is there.  When MkdirAll fails the
\* target is what it was.  When Copy fails the target is a file that holds
\* a beginning of the input and nothing of what it held.
C20_LocalWrite ==
    [][ ( /\ last'.op \in {"Write", "WriteReader"}
          /\ ~IsS3Literal(last'.path)
          /\ sys' # <<>> )
        => LET target == Clean(last'.path)
               n == Len(sys') IN
           /\ n <= 3
           /\ sys'[1].call = "MkdirAll" /\ sys'[1].name = Dir(last'.path)
           /\ n >= 2 => (sys'[2].call = "Create" /\ sys'[2].name = last'.path)
           /\ n = 3 => (sys'[3].call = "Copy" /\ sys'[3].name = last'.path)
           /\ \A i \in 1..(n - 1) : sys'[i].err = NoErr
           /\ n < 3 => sys'[n].err # NoErr
           /\ last'.err = sys'[n].err
           /\ n >= 2 => Resolve(disk', Dir(target)) = [err |-> NoErr, node |-> DirNode]
           /\ n = 1 => disk' = disk
           /\ (n = 3 /\ sys'[3].err # NoErr) =>
                /\ disk'[target].kind = "file"
                /\ IsPrefixOf(disk'[target].data, last'.input.data)
           /\ (n = 3 /\ sys'[3].err = NoErr) =>
                disk'[target] = FileNode(last'.input.data) ]_vars

\* A write into a missing directory failed part-way through the copy: the
\* directory is there and the file holds the first byte of the input.
C20_Witness ==
    /\ last.op \in {"Write", "WriteReader"}
    /\ last.path = <<"d", "/", "f">>
    /\ last.input.data = <<8, 9>>
    /\ Len(sys) = 3
    /\ sys[3].err # NoErr
    /\ last.err = sys[3].err
    /\ disk[<<"d">>] = DirNode
    /\ disk[<<"d", "/", "f">>] = FileNode(<<8>>)

\* What the method op of the client c yields.
Method(op, c, dk, st, path, input, listing, e) ==
    CASE op = "Reader" -> Reader(c, dk, st, path, e)
      [] op = "Write" -> Write(c, dk, st, path, input.data, e)
      [] op = "WriteReader" -> WriteReader(c, dk, st, path, input, e)
      [] op = "Delete" -> Delete(c, dk, st, path, e)
      [] op = "ListFiles" -> ListFiles(c, dk, st, path, listing, e)
      [] OTHER -> Exists(c, dk, st, path, e)

\* What the caller and the world see of what an operation yielded.
Seen(r) ==
    <<r.outcome, r.err, r.ok, r.rc, r.body, r.names, r.net, r.sys, r.disk,
      r.store>>

\* C21: the client DefaultClient is constructed as has encryption on, no
\* Region and a context, and what a package-level function returns and
\* does is what the same method of the client DefaultClient holds at the
\* call returns and does with the same arguments.
C21_DefaultClient ==
    [][ /\ ~DefaultClient.disableS3Encryption
        /\ DefaultClient.Region = ""
        /\ DefaultClient.ctx # "nil"
        /\ last'.op \in ClientOps =>
             \E e \in Envs(last'.path, last'.op \in {"Write", "WriteReader"}) :
                Seen(Method(last'.op, client, disk, store, last'.path,
                            last'.input, last'.listing, e))
                  = <<last'.outcome, last'.err, last'.ok, last'.rc,
                      last'.body, last'.names, net', sys', disk', store'>>
      ]_vars

\* The package-level Write, called after a client with encryption off and
\* a Region was assigned to DefaultClient, has put the object as that
\* client does: without the attribute and with no lookup.
C21_Witness ==
    /\ client.disableS3Encryption
    /\ last.op = "Write"
    /\ last.err = NoErr
    /\ Len(net) = 1
    /\ net[1].api = "PutObject"
    /\ net[1].sse = ""

\* C22: no operation changes the client it is called on (its Region, its
\* encryption flag, its provided config), whatever it returns, and what an
\* operation on a local path yields, whichever of its calls fails, is what
\* it yields with the client DefaultClient is constructed as, so the same
\* with every client.
C22_ConfigFrame ==
    [][ /\ last'.op \in ClientOps => client' = client
        /\ ( /\ last'.op \in ClientOps
             /\ ~IsS3Literal(last'.path)
             /\ client # DefaultClient ) =>
             \A e \in Envs(last'.path, last'.op \in {"Write", "WriteReader"}) :
                Method(last'.op, DefaultClient, disk, store, last'.path,
                       last'.input, last'.listing, e)
                  = Method(last'.op, client, disk, store, last'.path,
                           last'.input, last'.listing, e) ]_vars

\* A client with no Region resolved a connection in another region than
\* the default one and still has no Region.
C22_Witness ==
    /\ client.Region = ""
    /\ last.op \in ClientOps
    /\ last.made
    /\ last.conn.handler.region = "us-west-2"

-----------------------------------------------------------------------------
(* The calls of the goroutines on the MockClient, as the claims about it   *)
(* speak of them.                                                          *)

\* The methods a goroutine that is not in a call can call on the MockClient.
Callable(g) == IF gor[g].pc = "returned" THEN MockOps ELSE {}

\* The goroutine g starts a call in this step.
Starts(g) == gor[g].pc = "returned" /\ gor'[g] # gor[g]

\* The goroutine g reads or writes the map in this step.
Touches(g) == ~gor[g].touched /\ gor'[g].touched

\* The call of g has returned.
Returned(g) == gor[g].op \in MockOps /\ gor[g].pc = "returned"

\* No error is injected.
NoInjected ==
    /\ mock.ReaderErr = NoErr
    /\ mock.WriteErr = NoErr
    /\ mock.WriteReaderErr = NoErr

\* C23: with ReaderErr set, a Reader call returns (nil, ReaderErr) at once
\* for every path, a path in the map included, and with WriteErr set a Write
\* call returns WriteErr at once; neither takes the lock, reads or writes
\* the map, and the step leaves the map as it was.
C23_Injected ==
    [][\A g \in Goroutines :
         /\ (Starts(g) /\ gor'[g].op = "Reader" /\ mock.ReaderErr # NoErr)
              => /\ gor'[g].pc = "returned"
                 /\ gor'[g].rc = "nil"
                 /\ gor'[g].err = mock.ReaderErr
                 /\ ~gor'[g].touched
                 /\ mock' = mock
         /\ (Starts(g) /\ gor'[g].op = "Write" /\ mock.WriteErr # NoErr)
              => /\ gor'[g].pc = "returned"
                 /\ gor'[g].err = mock.WriteErr
                 /\ ~gor'[g].touched
                 /\ mock' = mock]_vars

C23_Witness ==
    /\ mock.ReaderErr # NoErr
    /\ mock.WriteErr # NoErr
    /\ \E g, h \in Goroutines :
         /\ Returned(g) /\ gor[g].op = "Reader"
         /\ mock.Filesystem[gor[g].path].exists
         /\ gor[g].err = mock.ReaderErr
         /\ Returned(h) /\ gor[h].op = "Write"
         /\ gor[h].err = mock.WriteErr

\* C24: with WriteReaderErr set, a WriteReader call that has returned has
\* returned WriteReaderErr and has not written the map.
C24_AsStated ==
    \A g \in Goroutines :
      (Returned(g) /\ gor[g].op = "WriteReader" /\ mock.WriteReaderErr # NoErr)
        => /\ gor[g].err = mock.WriteReaderErr
           /\ ~gor[g].touched

\* C25: a goroutine reads or writes the map only while it holds the lock,
\* the goroutines between Lock and Unlock are at most the one that holds it,
\* the lock is held by nobody else, and every call that was started returns.
C25_Lock ==
    /\ [](\A g \in Goroutines :
            /\ gor[g].pc \in {"locked", "unlock"} => mock.lock = g
            /\ gor[g].pc \in {"lock", "returned"} => mock.lock # g)
    /\ [][\A g \in Goroutines :
            /\ Touches(g) => (mock.lock = g /\ gor[g].pc = "locked")
            /\ mock'.Filesystem # mock.Filesystem
                 => \E h \in Goroutines : mock.lock = h /\ Touches(h)]_vars
    /\ \A g \in Goroutines : (gor[g].pc # "returned") ~> (gor[g].pc = "returned")

C25_Witness ==
    \E g, h \in Goroutines :
      /\ g # h
      /\ gor[g].pc = "unlock"
      /\ gor[h].pc = "lock"
      /\ mock.lock = g

\* C26: with no error injected, an entry of the map changes only in the
\* step in which the goroutine holding the lock writes it, and then to the
\* whole content of that goroutine's call; a Reader gets exactly what the
\* entry holds, and for a path without entry it gets a nil stream and the
\* not-found error and leaves the map as it was.
C26_LastWriteWins ==
    [][NoInjected =>
         /\ \A p \in MockPaths :
              mock'.Filesystem[p] # mock.Filesystem[p]
                => \E g \in Goroutines :
                     /\ mock.lock = g
                     /\ Touches(g)
                     /\ gor[g].op \in {"Write", "WriteReader"}
                     /\ gor[g].path = p
                     /\ mock'.Filesystem[p] = Entry(Rest(gor[g].input))
         /\ \A g \in Goroutines :
              /\ (Touches(g) /\ gor[g].op \in {"Write", "WriteReader"})
                   => mock'.Filesystem[gor[g].path] = Entry(Rest(gor[g].input))
              /\ (Touches(g) /\ gor[g].op = "Reader")
                   => /\ mock' = mock
                      /\ IF mock.Filesystem[gor[g].path].exists
                         THEN /\ gor'[g].rc = "body"
                              /\ gor'[g].body = mock.Filesystem[gor[g].path].data
                              /\ gor'[g].err = NoErr
                         ELSE /\ gor'[g].rc = "nil"
                              /\ gor'[g].err = MockNotFound(gor[g].path)]_vars

C26_Witness ==
    /\ NoInjected
    /\ \E g, h \in Goroutines :
         /\ g # h
         /\ Returned(g) /\ gor[g].op \in {"Write", "WriteReader"} /\ gor[g].touched
         /\ gor[h].op \in {"Write", "WriteReader"} /\ gor[h].pc = "unlock"
         /\ gor[h].path = gor[g].path
         /\ gor[h].data # gor[g].data
         /\ mock.Filesystem[gor[h].path] = Entry(gor[h].data)

\* C27: a goroutine that is not in a call can call each of the six
\* operations of Pathio on the MockClient.
C27_SixOperations ==
    \A g \in Goroutines : gor[g].pc = "returned" => ClientOps \subseteq Callable(g)

\* C30: a WriteReader call stores what is read from the position of its
\* input to the end: for an input at position 0 what Write stores for the
\* whole content, for an input past the start the remainder only, where
\* Client.WriteReader writes the whole content; and when reading the input
\* fails the call returns the error at once and the map is left as it was.
C30_NoRewind ==
    [][\A g \in Goroutines :
         /\ (Touches(g) /\ gor[g].op = "WriteReader")
              => LET input == gor[g].input
                     whole == [data |-> input.data, pos |-> input.pos,
                               seek |-> "ok"]
                     w == WriteReader(DefaultClient, disk, store, <<"f">>,
                                      whole, NoFault("")) IN
                 /\ mock'.Filesystem[gor[g].path] = Entry(Rest(input))
                 /\ input.pos = 0
                      => mock'.Filesystem[gor[g].path] = Entry(input.data)
                 /\ w.disk[<<"f">>] = FileNode(input.data)
                 /\ (input.pos > 0 /\ input.pos <= Len(input.data))
                      => /\ Len(mock'.Filesystem[gor[g].path].data)
                              = Len(input.data) - input.pos
                         /\ mock'.Filesystem[gor[g].path].data # w.disk[<<"f">>].data
         /\ (Touches(g) /\ gor[g].op = "Write")
              => mock'.Filesystem[gor[g].path] = Entry(gor[g].input.data)
         /\ (Starts(g) /\ gor'[g].op = "WriteReader" /\ gor'[g].input.read = "err")
              => /\ gor'[g].pc = "returned"
                 /\ gor'[g].err # NoErr
                 /\ ~gor'[g].touched
                 /\ mock' = mock]_vars

C30_Witness ==
    \E g, h \in Goroutines :
      /\ Returned(g) /\ gor[g].op = "WriteReader"
      /\ gor[g].input.pos > 0 /\ gor[g].input.read = "ok"
      /\ gor[g].touched
      /\ mock.Filesystem[gor[g].path] = Entry(Rest(gor[g].input))
      /\ Returned(h) /\ gor[h].op = "WriteReader"
      /\ gor[h].input.read = "err"

-----------------------------------------------------------------------------
\* A request of the pager in the log.
IsFetch(c) == c.api = "NextPage"

\* C28: a remote ListFiles makes the requests for the pages one after the
\* other in the order of the pages, at least one and no more than the store
\* has pages; no request follows one that failed; when the last request
\* failed the operation returns no list and that error, whatever the pages
\* before held; otherwise every page was requested and the list is built
\* from all of them.
C28_AllOrNothing ==
    last.op = "ListFiles" =>
      LET fetches == SelectSeq(net, IsFetch)
          n == Len(fetches)
          answers == Answers(last.listing) IN
      IF ~last.made THEN n = 0
      ELSE /\ n >= 1
           /\ n <= Len(answers)
           /\ \A i \in 1..n : fetches[i].page = i
           /\ \A i \in 1..(n - 1) : fetches[i].err = NoErr
           /\ \A i \in 1..n : net[Len(net) - n + i] = fetches[i]
           /\ net[Len(net) - n].api = "ListAllObjects"
           /\ IF fetches[n].err # NoErr
              THEN /\ last.names = <<>>
                   /\ last.err = fetches[n].err
                   /\ net[Len(net) - n].err = fetches[n].err
              ELSE /\ n = Len(answers)
                   /\ last.err = NoErr
                   /\ last.names = lsS3Pages(last.listing, 1, <<>>)

\* The request for the second page failed after a first page that held a
\* common prefix and a key.
C28_Witness ==
    /\ last.op = "ListFiles"
    /\ last.made
    /\ Len(last.listing) >= 2
    /\ last.listing[1] = [CommonPrefixes |-> <<"p/">>, Contents |-> <<"f">>]
    /\ Len(SelectSeq(net, IsFetch)) = 2
    /\ net[Len(net)].err # NoErr
    /\ last.names = <<>>
    /\ last.err = net[Len(net)].err

-----------------------------------------------------------------------------
(* The log of a run on a local path, as C29 speaks of it. *)

\* The file of the path was created (by a Write, whether it went on to
\* succeed or not).
Created(c, path) == c.call = "Create" /\ c.name = path /\ c.err = NoErr

\* A Write of the path succeeded: its last call, the copy, did.
Written(c, path) == c.call = "Copy" /\ c.name = path /\ c.err = NoErr

\* A Delete of the path succeeded.
Removed(c, path) == c.call = "Remove" /\ c.name = path /\ c.err = NoErr

\* A Write of the path was called: the first of its calls.
WriteCalled(c, path) == c.call = "MkdirAll" /\ c.name = Dir(path)

\* The place in the log of the latest call that Is(call, path), 0 when
\* there is none.
LatestOf(log, Is(_, _), path) ==
    LET at == { i \in 1..Len(log) : Is(log[i], path) } IN
    IF at = {} THEN 0 ELSE CHOOSE i \in at : \A j \in at : j <= i

\* The call in this step is a Delete that follows a successful Delete of
\* its path with no Write of the path called in between.
DeleteAgain ==
    /\ last = Idle
    /\ last'.op = "Delete"
    /\ LatestOf(sys, Removed, last'.path) > 0
    /\ LatestOf(sys, Removed, last'.path) > LatestOf(sys, WriteCalled, last'.path)

=============================================================================
